---- MODULE Spec2Model ----
(***************************************************************************)
(* A model of samey (BadMannersXYZ/samey): the tag search of query.rs and  *)
(* the pool ordering of views.rs, over the tables of the migration.        *)
(*                                                                         *)
(* Strings are sequences of one-character strings, so that lowercasing,    *)
(* prefix tests and splitting are computed.  Option<T> is a sequence of    *)
(* length 0 (None) or 1 (Some).  Option<User> is a user record; the        *)
(* anonymous caller is the record with id 0.  A pool position (f32 in the  *)
(* source) is an integer count of 1/Unit: arithmetic on it is exact, and a *)
(* handler whose result is not a multiple of 1/Unit, or exceeds MaxCoord,  *)
(* is not taken (the guard that bounds the model).                         *)
(***************************************************************************)
EXTENDS Integers, Sequences, FiniteSets, TLC

VARIABLES
    posts,      \* table samey_post: rows [id, uploader_id, is_public, rating, parent_id]
    tags,       \* table samey_tag: rows [id, name, normalized_name]
    tag_post,   \* table samey_tag_post: rows [post_id, tag_id], unique
    pools,      \* table samey_pool: rows [id, uploader_id, is_public]
    pool_post,  \* table samey_pool_post: rows [id, pool_id, post_id, position]
    seq,        \* the AUTOINCREMENT counters of the four pk_auto tables
    resp,       \* the last request and its response
    inflight    \* the handlers that are between two of their statements

vars == <<posts, tags, tag_post, pools, pool_post, seq, resp, inflight>>
db == <<posts, tags, tag_post, pools, pool_post, seq>>

----------------------------------------------------------------------------
(* Bounds of the model *)

MaxSearchPosts == 2
MaxPoolPosts == 3
MaxTags == 2
MaxPools == 1
MaxMembers == 3
FracBits == 1
MaxCoord == 3
MaxRows == 51
MaxVisPosts == 2
MaxTagPosts == 2
MaxRequests == 2
MaxTokens == 2

----------------------------------------------------------------------------
(* Program constants *)

NEGATIVE_PREFIX == <<"-">>
RATING_PREFIX == <<"r", "a", "t", "i", "n", "g", ":">>
PostsPageSize == 50
RssPageSize == 20
PoolsPageSize == 25

----------------------------------------------------------------------------
(* Strings *)

RECURSIVE Pow2(_)
Pow2(n) == IF n = 0 THEN 1 ELSE 2 * Pow2(n - 1)

\* one unit of position, 1.0, in counts of 1/Unit
Unit == Pow2(FracBits)

LowerChar(c) ==
    CASE c = "A" -> "a"
      [] c = "B" -> "b"
      [] c = "R" -> "r"
      [] c = "S" -> "s"
      [] c = "T" -> "t"
      [] c = "I" -> "i"
      [] c = "N" -> "n"
      [] c = "G" -> "g"
      [] OTHER -> c

to_lowercase(s) == [i \in 1..Len(s) |-> LowerChar(s[i])]

starts_with(s, prefix) ==
    /\ Len(s) >= Len(prefix)
    /\ SubSeq(s, 1, Len(prefix)) = prefix

\* String::split_off(at): the tail from byte at
split_off(s, at) == SubSeq(s, at + 1, Len(s))

\* str::split_whitespace: the maximal runs of non-space characters, in order
RECURSIVE SplitFrom(_, _, _)
SplitFrom(s, i, cur) ==
    IF i > Len(s)
    THEN IF cur = <<>> THEN <<>> ELSE <<cur>>
    ELSE IF s[i] = " "
         THEN IF cur = <<>>
              THEN SplitFrom(s, i + 1, <<>>)
              ELSE <<cur>> \o SplitFrom(s, i + 1, <<>>)
         ELSE SplitFrom(s, i + 1, Append(cur, s[i]))

split_whitespace(s) == SplitFrom(s, 1, <<>>)

Range(f) == {f[i] : i \in DOMAIN f}

\* the orders in which a HashSet may be iterated
Orders(S) == {o \in [1..Cardinality(S) -> S] : Range(o) = S}

\* the integers of S in descending order (ORDER BY ... DESC)
RECURSIVE SortedDesc(_)
SortedDesc(S) ==
    IF S = {} THEN <<>>
    ELSE LET m == CHOOSE x \in S : \A y \in S : y <= x
         IN <<m>> \o SortedDesc(S \ {m})

----------------------------------------------------------------------------
(* Users (table samey_user, filled by create_user) and callers *)

Admin == [id |-> 1, is_admin |-> TRUE]
Alice == [id |-> 2, is_admin |-> FALSE]
Bob == [id |-> 3, is_admin |-> FALSE]
NoUser == [id |-> 0, is_admin |-> FALSE]

Users == {Admin, Alice, Bob}
Callers == Users \cup {NoUser}

\* the caller of a stored user id
UserById(uid) == CHOOSE u \in Callers : u.id = uid

is_none(user) == user.id = 0

\* `user.is_admin || row.uploader_id == user.id`, false for no user
can_edit(user, row) ==
    IF is_none(user) THEN FALSE
    ELSE user.is_admin \/ row.uploader_id = user.id

----------------------------------------------------------------------------
(* Initial state: the tables as the migration creates them *)

NoResp == [op |-> "none", status |-> "none"]

\* the tasks that serve requests at the same time, and a task that serves none
Requests == 1..MaxRequests
Idle == [pc |-> "idle"]
\* a request that has been answered, where a request is sent once
Answered == [pc |-> "answered"]

Init ==
    /\ posts = {}
    /\ tags = {}
    /\ tag_post = {}
    /\ pools = {}
    /\ pool_post = {}
    /\ seq = [post |-> 0, tag |-> 0, pool |-> 0, pool_post |-> 0]
    /\ resp = NoResp
    /\ inflight = [r \in Requests |-> Idle]

----------------------------------------------------------------------------
(* Responses *)

Fail(op, user, status) == [op |-> op, user |-> user.id, status |-> status]

----------------------------------------------------------------------------
(* Tag upsert: insert_many(..).on_conflict(normalized_name).do_nothing(),   *)
(* then the re-select by normalized name                                    *)

\* mutant: a plain INSERT, without the conflict clause and without the index
RECURSIVE InsertTagsAlways(_, _, _)
InsertTagsAlways(table, next, order) ==
    IF order = <<>> THEN [table |-> table, next |-> next]
    ELSE InsertTagsAlways(
             table \cup {[id |-> next + 1, name |-> Head(order),
                          normalized_name |-> to_lowercase(Head(order))]},
             next + 1, Tail(order))

RECURSIVE InsertTags(_, _, _)
InsertTags(table, next, order) ==
    IF order = <<>> THEN [table |-> table, next |-> next]
    ELSE LET name == Head(order)
             normalized == to_lowercase(name)
         IN IF \E r \in table : r.normalized_name = normalized
            THEN InsertTags(table, next, Tail(order))
            ELSE InsertTags(
                     table \cup {[id |-> next + 1, name |-> name,
                                  normalized_name |-> normalized]},
                     next + 1, Tail(order))

SelectTags(table, normalized_tags) ==
    {r \in table : r.normalized_name \in normalized_tags}

----------------------------------------------------------------------------
(* upload *)

UploadTagNames(text) ==
    {t \in Range(split_whitespace(text)) :
        ~(starts_with(t, NEGATIVE_PREFIX) \/ starts_with(t, RATING_PREFIX))}

Upload(user, text, has_media) ==
    IF is_none(user)
    THEN /\ resp' = Fail("upload", user, "Forbidden")
         /\ UNCHANGED db
    ELSE LET names == UploadTagNames(text)
             normalized_tags == {to_lowercase(t) : t \in names}
         IN \E order \in Orders(names) :
              LET ins == InsertTags(tags, seq.tag, order)
                  upload_tags == SelectTags(ins.table, normalized_tags)
                  post_id == seq.post + 1
              IN /\ ins.next <= MaxTags
                 /\ tags' = ins.table
                 /\ IF has_media
                    THEN /\ posts' = posts \cup
                              {[id |-> post_id, uploader_id |-> user.id,
                                is_public |-> FALSE, rating |-> <<"u">>,
                                parent_id |-> 0]}
                         /\ tag_post' = tag_post \cup
                              {[post_id |-> post_id, tag_id |-> t.id] : t \in upload_tags}
                         /\ seq' = [seq EXCEPT !.tag = ins.next, !.post = post_id]
                         /\ resp' = [op |-> "upload", user |-> user.id,
                                     status |-> "ok", post_id |-> post_id,
                                     tags_text |-> text,
                                     upload_tags |-> upload_tags]
                    ELSE /\ seq' = [seq EXCEPT !.tag = ins.next]
                         /\ resp' = [op |-> "upload", user |-> user.id,
                                     status |-> "Other", post_id |-> 0,
                                     tags_text |-> text,
                                     upload_tags |-> upload_tags]
                         /\ UNCHANGED <<posts, tag_post>>
                 /\ UNCHANGED <<pools, pool_post>>

----------------------------------------------------------------------------
(* upload, statement by statement: the handler awaits each statement, and   *)
(* another request may be served in between                                 *)

\* the "tags" field is read
UploadTagsField(r, user, text) ==
    /\ inflight[r] = Idle
    /\ ~is_none(user)
    /\ inflight' = [inflight EXCEPT ![r] =
           [pc |-> IF UploadTagNames(text) = {} THEN "media" ELSE "insert_many",
            op |-> "upload", user |-> user.id, tags_text |-> text,
            upload_tags |-> {}]]
    /\ UNCHANGED <<db, resp>>

\* SameyTag::insert_many(..).on_conflict(..).do_nothing()
UploadInsertMany(r) ==
    /\ inflight[r].pc = "insert_many"
    /\ \E order \in Orders(UploadTagNames(inflight[r].tags_text)) :
         LET ins == InsertTags(tags, seq.tag, order)
         IN /\ ins.next <= MaxTags
            /\ tags' = ins.table
            /\ seq' = [seq EXCEPT !.tag = ins.next]
    /\ inflight' = [inflight EXCEPT ![r].pc = "find"]
    /\ UNCHANGED <<posts, tag_post, pools, pool_post, resp>>

\* SameyTag::find().filter(normalized_name IN ..)
UploadFind(r) ==
    /\ inflight[r].pc = "find"
    /\ inflight' = [inflight EXCEPT
           ![r].pc = "media",
           ![r].upload_tags =
               SelectTags(tags, {to_lowercase(t) :
                                    t \in UploadTagNames(inflight[r].tags_text)})]
    /\ UNCHANGED <<db, resp>>

\* the media file is stored, then the post and its associations
UploadMedia(r) ==
    /\ inflight[r].pc = "media"
    /\ LET post_id == seq.post + 1
       IN /\ posts' = posts \cup
                {[id |-> post_id, uploader_id |-> inflight[r].user,
                  is_public |-> FALSE, rating |-> <<"u">>, parent_id |-> 0]}
          \* samey_tag_post.tag_id references samey_tag: the insert_many of
          \* the associations fails as a whole when a resolved tag is gone
          /\ tag_post' = IF inflight[r].upload_tags \subseteq tags
                          THEN tag_post \cup
                                 {[post_id |-> post_id, tag_id |-> t.id] :
                                     t \in inflight[r].upload_tags}
                          ELSE tag_post
          /\ seq' = [seq EXCEPT !.post = post_id]
          /\ resp' = [op |-> "upload", user |-> inflight[r].user,
                      status |-> IF inflight[r].upload_tags \subseteq tags
                                 THEN "ok" ELSE "Database",
                      post_id |-> post_id,
                      tags_text |-> inflight[r].tags_text,
                      upload_tags |-> inflight[r].upload_tags]
    /\ inflight' = [inflight EXCEPT ![r] = Idle]
    /\ UNCHANGED <<tags, pools, pool_post>>

----------------------------------------------------------------------------
(* The visibility filter *)

\* mutant: no filter at all
filter_posts_by_user_unfiltered(rows, user) == rows

\* mutant: every logged-in user passes like an admin
filter_posts_by_user_any_login(rows, user) ==
    IF is_none(user) THEN {p \in rows : p.is_public}
    ELSE rows

filter_posts_by_user(rows, user) ==
    IF is_none(user) THEN {p \in rows : p.is_public}
    ELSE IF user.is_admin THEN rows
    ELSE {p \in rows : p.is_public \/ p.uploader_id = user.id}

find_by_id(table, id) == {r \in table : r.id = id}

----------------------------------------------------------------------------
(* submit_post_details *)

SubmitPostDetails(user, post_id, is_public, rating, text, parent) ==
    LET found == find_by_id(posts, post_id) IN
    IF found = {}
    THEN /\ resp' = Fail("submit_post_details", user, "NotFound")
         /\ UNCHANGED db
    ELSE IF ~can_edit(user, CHOOSE p \in found : TRUE)
    THEN /\ resp' = Fail("submit_post_details", user, "Forbidden")
         /\ UNCHANGED db
    ELSE LET post == CHOOSE p \in found : TRUE
             parent_post ==
                 IF parent = <<>> THEN {}
                 ELSE filter_posts_by_user(find_by_id(posts, parent[1]), user)
             parent_id == IF parent_post = {} THEN 0 ELSE parent[1]
             updated == [post EXCEPT !.is_public = is_public,
                                     !.rating = rating,
                                     !.parent_id = parent_id]
             names == Range(split_whitespace(text))
             normalized_tags == {to_lowercase(t) : t \in names}
             deleted == {tp \in tag_post : tp.post_id # post_id}
         IN \E order \in Orders(names) :
              LET ins == InsertTags(tags, seq.tag, order)
                  upload_tags == SelectTags(ins.table, normalized_tags)
              IN /\ ins.next <= MaxTags
                 /\ posts' = (posts \ {post}) \cup {updated}
                 /\ tags' = ins.table
                 /\ tag_post' = deleted \cup
                      {[post_id |-> post_id, tag_id |-> t.id] : t \in upload_tags}
                 /\ seq' = [seq EXCEPT !.tag = ins.next]
                 /\ resp' = [op |-> "submit_post_details", user |-> user.id,
                             status |-> "ok", post_id |-> post_id,
                             parent_post |-> {p.id : p \in parent_post},
                             tags |-> {t.name : t \in upload_tags},
                             tags_text |-> text,
                             upload_tags |-> upload_tags]
                 /\ UNCHANGED <<pools, pool_post>>

----------------------------------------------------------------------------
(* submit_post_details cut short: one statement of the tag replacement      *)
(* returns Err and `?` leaves the handler; the statements before it have    *)
(* been executed, each on its own (there is no transaction)                 *)

FailedSteps == {"delete_tag_post", "insert_tags", "select_tags", "insert_tag_post"}

SubmitPostDetailsFails(user, post_id, is_public, rating, text, parent, failed) ==
    LET found == find_by_id(posts, post_id)
        names == Range(split_whitespace(text))
    IN
    /\ found # {}
    /\ can_edit(user, CHOOSE p \in found : TRUE)
    /\ failed # "delete_tag_post" => names # {}
    /\ LET post == CHOOSE p \in found : TRUE
           parent_post ==
               IF parent = <<>> THEN {}
               ELSE filter_posts_by_user(find_by_id(posts, parent[1]), user)
           parent_id == IF parent_post = {} THEN 0 ELSE parent[1]
           updated == [post EXCEPT !.is_public = is_public,
                                   !.rating = rating,
                                   !.parent_id = parent_id]
           deleted == {tp \in tag_post : tp.post_id # post_id}
       IN \E order \in Orders(names) :
            LET ins == InsertTags(tags, seq.tag, order)
            IN /\ ins.next <= MaxTags
               /\ posts' = (posts \ {post}) \cup {updated}
               /\ tag_post' = IF failed = "delete_tag_post" THEN tag_post ELSE deleted
               /\ tags' = IF failed \in {"select_tags", "insert_tag_post"}
                          THEN ins.table ELSE tags
               /\ seq' = IF failed \in {"select_tags", "insert_tag_post"}
                         THEN [seq EXCEPT !.tag = ins.next] ELSE seq
               /\ resp' = [op |-> "submit_post_details", user |-> user.id,
                           status |-> "Database", post_id |-> post_id,
                           failed |-> failed]
               /\ UNCHANGED <<pools, pool_post>>

----------------------------------------------------------------------------
(* submit_post_details, statement by statement, for a caller who may edit   *)
(* the post: the post row is updated, then the associations of the post are *)
(* deleted, the tags inserted, selected and associated, each statement      *)
(* awaited and committed on its own; a request is sent once and keeps its   *)
(* form after the answer                                                    *)

SubmitUpdatePost(r, user, post_id, is_public, rating, text, parent) ==
    LET found == find_by_id(posts, post_id) IN
    /\ inflight[r] = Idle
    /\ found # {}
    /\ can_edit(user, CHOOSE p \in found : TRUE)
    /\ LET post == CHOOSE p \in found : TRUE
           parent_post ==
               IF parent = <<>> THEN {}
               ELSE filter_posts_by_user(find_by_id(posts, parent[1]), user)
           parent_id == IF parent_post = {} THEN 0 ELSE parent[1]
       IN posts' = (posts \ {post}) \cup
                      {[post EXCEPT !.is_public = is_public, !.rating = rating,
                                    !.parent_id = parent_id]}
    /\ inflight' = [inflight EXCEPT ![r] =
           [pc |-> "delete_tag_post", op |-> "submit_post_details",
            user |-> user.id, post_id |-> post_id, tags_text |-> text,
            upload_tags |-> {}, status |-> "none"]]
    /\ UNCHANGED <<tags, tag_post, pools, pool_post, seq, resp>>

\* SameyTagPost::delete_many().filter(post_id = ..)
SubmitDeleteTagPost(r) ==
    /\ inflight[r].pc = "delete_tag_post"
    /\ tag_post' = {tp \in tag_post : tp.post_id # inflight[r].post_id}
    /\ inflight' = [inflight EXCEPT ![r].pc =
           IF split_whitespace(inflight[r].tags_text) = <<>>
           THEN "respond" ELSE "insert_many"]
    /\ UNCHANGED <<posts, tags, pools, pool_post, seq, resp>>

\* SameyTag::insert_many(..).on_conflict(..).do_nothing()
SubmitInsertMany(r) ==
    /\ inflight[r].pc = "insert_many"
    /\ \E order \in Orders(Range(split_whitespace(inflight[r].tags_text))) :
         LET ins == InsertTags(tags, seq.tag, order)
         IN /\ ins.next <= MaxTags
            /\ tags' = ins.table
            /\ seq' = [seq EXCEPT !.tag = ins.next]
    /\ inflight' = [inflight EXCEPT ![r].pc = "find"]
    /\ UNCHANGED <<posts, tag_post, pools, pool_post, resp>>

\* SameyTag::find().filter(normalized_name IN ..)
SubmitFind(r) ==
    /\ inflight[r].pc = "find"
    /\ inflight' = [inflight EXCEPT
           ![r].pc = "insert_tag_post",
           ![r].upload_tags =
               SelectTags(tags, {to_lowercase(t) :
                                    t \in Range(split_whitespace(inflight[r].tags_text))})]
    /\ UNCHANGED <<db, resp>>

\* SameyTagPost::insert_many fails as a whole on the unique index on
\* (post_id, tag_id) and on the foreign key to samey_tag
tag_post_insert_fails(rows) ==
    \/ rows \cap tag_post # {}
    \/ \E x \in rows : ~\E t \in tags : t.id = x.tag_id

SubmitInsertTagPost(r) ==
    LET rows == {[post_id |-> inflight[r].post_id, tag_id |-> t.id] :
                    t \in inflight[r].upload_tags}
    IN /\ inflight[r].pc = "insert_tag_post"
       /\ IF tag_post_insert_fails(rows)
          THEN /\ resp' = [op |-> "submit_post_details", user |-> inflight[r].user,
                           status |-> "Database", post_id |-> inflight[r].post_id,
                           failed |-> "insert_tag_post"]
               /\ inflight' = [inflight EXCEPT ![r].pc = "answered",
                                               ![r].status = "Database"]
               /\ UNCHANGED db
          ELSE /\ tag_post' = tag_post \cup rows
               /\ inflight' = [inflight EXCEPT ![r].pc = "respond"]
               /\ UNCHANGED <<posts, tags, pools, pool_post, seq, resp>>

SubmitRespond(r) ==
    /\ inflight[r].pc = "respond"
    /\ resp' = [op |-> "submit_post_details", user |-> inflight[r].user,
                status |-> "ok", post_id |-> inflight[r].post_id,
                parent_post |-> {},
                tags |-> {t.name : t \in inflight[r].upload_tags},
                tags_text |-> inflight[r].tags_text,
                upload_tags |-> inflight[r].upload_tags]
    /\ inflight' = [inflight EXCEPT ![r].pc = "answered", ![r].status = "ok"]
    /\ UNCHANGED db

----------------------------------------------------------------------------
(* search_posts *)

\* mutant: the prefixes are looked for in the token as typed, and the token
\* is lowercased afterwards
classify_tokens_raw_prefix(tokens) ==
    LET raw == Range(tokens)
        negative == {t \in raw : starts_with(t, NEGATIVE_PREFIX)}
        negative_rating ==
            {t \in negative :
                starts_with(split_off(t, Len(NEGATIVE_PREFIX)), RATING_PREFIX)}
        positive == raw \ negative
        positive_rating == {t \in positive : starts_with(t, RATING_PREFIX)}
    IN [include_tags |-> {to_lowercase(t) : t \in positive \ positive_rating},
        exclude_tags |->
            {to_lowercase(split_off(t, Len(NEGATIVE_PREFIX))) :
                t \in negative \ negative_rating},
        include_ratings |->
            {to_lowercase(split_off(t, Len(RATING_PREFIX))) : t \in positive_rating},
        exclude_ratings |->
            {to_lowercase(split_off(t, Len(NEGATIVE_PREFIX) + Len(RATING_PREFIX))) :
                t \in negative_rating}]

\* the token classifier: lowercase, then the prefixes
classify_tokens(tokens) ==
    LET lowered == {to_lowercase(t) : t \in Range(tokens)}
        negative == {t \in lowered : starts_with(t, NEGATIVE_PREFIX)}
        negative_rating ==
            {t \in negative :
                starts_with(split_off(t, Len(NEGATIVE_PREFIX)), RATING_PREFIX)}
        positive == lowered \ negative
        positive_rating == {t \in positive : starts_with(t, RATING_PREFIX)}
    IN [include_tags |-> positive \ positive_rating,
        exclude_tags |->
            {split_off(t, Len(NEGATIVE_PREFIX)) : t \in negative \ negative_rating},
        include_ratings |->
            {split_off(t, Len(RATING_PREFIX)) : t \in positive_rating},
        exclude_ratings |->
            {split_off(t, Len(NEGATIVE_PREFIX) + Len(RATING_PREFIX)) :
                t \in negative_rating}]

----------------------------------------------------------------------------
(* search_tags: the completions of the token that ends at the caret *)

\* str::split(' ').next_back(): the piece after the last space
RECURSIVE last_piece(_)
last_piece(s) ==
    IF s = <<>> THEN <<>>
    ELSE IF s[Len(s)] = " " THEN <<>>
    ELSE Append(last_piece(SubSeq(s, 1, Len(s) - 1)), s[Len(s)])

\* str::trim
RECURSIVE trim(_)
trim(s) ==
    IF s = <<>> THEN <<>>
    ELSE IF Head(s) = " " THEN trim(Tail(s))
    ELSE IF s[Len(s)] = " " THEN trim(SubSeq(s, 1, Len(s) - 1))
    ELSE s

\* the four rating completions that start with what was typed
rating_completions(typed) ==
    {t \in {RATING_PREFIX \o <<"u">>, RATING_PREFIX \o <<"s">>,
            RATING_PREFIX \o <<"q">>, RATING_PREFIX \o <<"e">>} :
        starts_with(t, typed)}

\* LOWER("samey_tag"."name") LIKE CONCAT(lowercased, '%')
tag_completions(typed) ==
    {t.name : t \in {r \in tags : starts_with(to_lowercase(r.name), to_lowercase(typed))}}

SearchTags(text, selection_end) ==
    LET tag == trim(last_piece(SubSeq(text, 1, selection_end)))
        negative == starts_with(tag, NEGATIVE_PREFIX)
        stripped_tag == IF negative THEN split_off(tag, Len(NEGATIVE_PREFIX)) ELSE tag
        kind == IF tag = <<>> THEN "none"
                ELSE IF starts_with(stripped_tag, RATING_PREFIX) THEN "ratings"
                ELSE "tags"
        names == CASE kind = "none" -> {}
                   [] kind = "ratings" -> rating_completions(stripped_tag)
                   [] kind = "tags" -> tag_completions(stripped_tag)
    IN /\ selection_end <= Len(text)
       /\ resp' = [op |-> "search_tags", user |-> NoUser.id, status |-> "ok",
                   tags_text |-> text, selection_end |-> selection_end,
                   token |-> tag, kind |-> kind,
                   completions |->
                       {[name |-> n,
                         value |-> IF negative THEN NEGATIVE_PREFIX \o n ELSE n] :
                           n \in names}]
       /\ UNCHANGED db

\* rows of: <rows> INNER JOIN samey_tag_post INNER JOIN samey_tag
InnerJoinTags(rows) ==
    {x \in [post : rows, tag : tags] :
        [post_id |-> x.post.id, tag_id |-> x.tag.id] \in tag_post}

\* the NULL columns of an outer join
NullTag == [id |-> 0, name |-> <<>>, normalized_name |-> <<>>]

\* rows of: <rows> LEFT JOIN samey_tag_post LEFT JOIN samey_tag
LeftJoinTags(rows) ==
    InnerJoinTags(rows) \cup
    {[post |-> p, tag |-> NullTag] :
        p \in {q \in rows : ~\E tp \in tag_post : tp.post_id = q.id}}

\* mutant: no GROUP BY, a row of the result for each row of the join
GroupByPost_per_joined_row(joined) ==
    {[id |-> x.post.id, rating |-> x.post.rating,
      tags |-> IF x.tag.id # 0 THEN {x.tag.name} ELSE {}] : x \in joined}

\* GROUP BY samey_post.id with GROUP_CONCAT(samey_tag.name): one row per post
\* id among the joined rows; the concatenation skips NULL and is kept as the
\* set of names (posts_page sorts it)
GroupByPost(joined) ==
    {[id |-> x.post.id, rating |-> x.post.rating,
      tags |-> {y.tag.name : y \in {z \in joined : z.post.id = x.post.id /\ z.tag.id # 0}}] :
        x \in joined}

\* mutant: HAVING COUNT(..) >= 1, any of the tags instead of all
include_tags_subquery_any(include_tags) ==
    LET rows == {x \in InnerJoinTags(posts) : x.tag.normalized_name \in include_tags}
    IN {x.post.id : x \in rows}

\* SELECT post.id .. WHERE normalized_name IN (..) GROUP BY post.id
\* HAVING COUNT(tag.id) = include_tags.len()
include_tags_subquery(include_tags) ==
    LET rows == {x \in InnerJoinTags(posts) : x.tag.normalized_name \in include_tags}
    IN {id \in {x.post.id : x \in rows} :
           Cardinality({x \in rows : x.post.id = id}) = Cardinality(include_tags)}

\* mutant: the exclusion counts like the inclusion, all of the tags instead of any
exclude_tags_subquery_all(exclude_tags) ==
    LET rows == {x \in InnerJoinTags(posts) : x.tag.normalized_name \in exclude_tags}
    IN {id \in {x.post.id : x \in rows} :
           Cardinality({x \in rows : x.post.id = id}) = Cardinality(exclude_tags)}

\* SELECT post.id .. WHERE normalized_name IN (..)
exclude_tags_subquery(exclude_tags) ==
    {x.post.id : x \in {y \in InnerJoinTags(posts) :
                            y.tag.normalized_name \in exclude_tags}}

\* the rows in the order of a to-one key (ORDER BY key DESC)
OrderByIdDesc(rows) ==
    LET ids == SortedDesc({r.id : r \in rows})
    IN [i \in 1..Len(ids) |-> CHOOSE r \in rows : r.id = ids[i]]

\* the four conditional filters of the query
by_include_tags(c, rows) ==
    IF c.include_tags # {}
    THEN LET ids == include_tags_subquery(c.include_tags)
         IN {p \in rows : p.id \in ids}
    ELSE rows

by_exclude_tags(c, rows) ==
    IF c.exclude_tags # {}
    THEN LET ids == exclude_tags_subquery(c.exclude_tags)
         IN {p \in rows : p.id \notin ids}
    ELSE rows

by_include_ratings(c, rows) ==
    IF c.include_ratings # {}
    THEN {p \in rows : p.rating \in c.include_ratings}
    ELSE rows

by_exclude_ratings(c, rows) ==
    IF c.exclude_ratings # {}
    THEN {p \in rows : p.rating \notin c.exclude_ratings}
    ELSE rows

\* mutant: the branch with tag constraints lacks the rating filters
search_posts_tags_without_ratings(tokens, user) ==
    LET c == classify_tokens(tokens)
        query ==
            IF c.include_tags = {} /\ c.exclude_tags = {}
            THEN by_exclude_ratings(c, by_include_ratings(c, posts))
            ELSE by_exclude_tags(c, by_include_tags(c, posts))
    IN OrderByIdDesc(GroupByPost(LeftJoinTags(filter_posts_by_user(query, user))))

search_posts(tokens, user) ==
    LET c == classify_tokens(tokens)
        query ==
            IF c.include_tags = {} /\ c.exclude_tags = {}
            THEN by_exclude_ratings(c, by_include_ratings(c, posts))
            ELSE by_exclude_ratings(c, by_include_ratings(c,
                     by_exclude_tags(c, by_include_tags(c, posts))))
    IN OrderByIdDesc(GroupByPost(LeftJoinTags(filter_posts_by_user(query, user))))

\* the first part of search_posts alone: the four sets of a token list
ClassifyTokens(tokens) ==
    /\ resp' = [op |-> "classify_tokens", user |-> NoUser.id, status |-> "ok",
                tokens |-> tokens, classified |-> classify_tokens(tokens)]
    /\ UNCHANGED db

----------------------------------------------------------------------------
(* Pagination (sea_orm Paginator, as called by the handlers) *)

\* mutant: the page number taken as the zero-based index
saturating_sub_none(a, b) == a

\* u32::saturating_sub
saturating_sub(a, b) == IF a > b THEN a - b ELSE 0

num_pages(rows, page_size) ==
    (Len(rows) \div page_size) + (IF Len(rows) % page_size > 0 THEN 1 ELSE 0)

fetch_page(rows, page_size, page) ==
    LET first == page * page_size + 1
        last == IF (page + 1) * page_size < Len(rows)
                THEN (page + 1) * page_size ELSE Len(rows)
    IN SubSeq(rows, first, last)

\* query.tags.map(|tags| tags.split_whitespace().collect())
QueryTokens(query) == IF query = <<>> THEN <<>> ELSE split_whitespace(query[1])

----------------------------------------------------------------------------
(* posts_page and rss_page *)

PostsPage(user, query, page) ==
    LET found == search_posts(QueryTokens(query), user)
    IN /\ resp' = [op |-> "posts_page", user |-> user.id, status |-> "ok",
                   query |-> query, page |-> page,
                   page_count |-> num_pages(found, PostsPageSize),
                   posts |-> fetch_page(found, PostsPageSize,
                                        saturating_sub(page, 1))]
       /\ UNCHANGED db

RssPage(query) ==
    LET found == search_posts(QueryTokens(query), NoUser)
    IN /\ resp' = [op |-> "rss_page", user |-> NoUser.id, status |-> "ok",
                   query |-> query,
                   posts |-> fetch_page(found, RssPageSize, 0)]
       /\ UNCHANGED db

----------------------------------------------------------------------------
(* Pools: the member listing *)

\* the sequences that hold each row of `rows` once, in ascending position;
\* rows of equal position come in any order (ORDER BY position ASC)
OrderByPositionAsc(rows) ==
    {o \in Orders(rows) :
        \A i \in 1..Len(o) - 1 : o[i].position <= o[i + 1].position}

\* get_posts_in_pool: the possible results of the ordered query
get_posts_in_pool(pool_id, user) ==
    LET joined == InnerJoinTags(filter_posts_by_user(posts, user))
        rows == {[id |-> m.post_id, pool_post_id |-> m.id, position |-> m.position] :
                    m \in {n \in pool_post :
                              /\ n.pool_id = pool_id
                              /\ \E x \in joined : x.post.id = n.post_id}}
    IN OrderByPositionAsc(rows)

----------------------------------------------------------------------------
(* create_pool, change_pool_visibility, delete_pool *)

CreatePool(user, name) ==
    IF is_none(user)
    THEN /\ resp' = Fail("create_pool", user, "Forbidden")
         /\ UNCHANGED db
    ELSE IF \E p \in pools : p.name = name
    THEN /\ resp' = Fail("create_pool", user, "Database")
         /\ UNCHANGED db
    ELSE /\ seq.pool < MaxPools
         /\ pools' = pools \cup {[id |-> seq.pool + 1, name |-> name,
                                  uploader_id |-> user.id, is_public |-> FALSE]}
         /\ seq' = [seq EXCEPT !.pool = seq.pool + 1]
         /\ resp' = [op |-> "create_pool", user |-> user.id, status |-> "ok",
                     pool_id |-> seq.pool + 1]
         /\ UNCHANGED <<posts, tags, tag_post, pool_post>>

ChangePoolVisibility(user, pool_id, is_public) ==
    LET found == find_by_id(pools, pool_id) IN
    IF found = {}
    THEN /\ resp' = Fail("change_pool_visibility", user, "NotFound")
         /\ UNCHANGED db
    ELSE IF ~can_edit(user, CHOOSE p \in found : TRUE)
    THEN /\ resp' = Fail("change_pool_visibility", user, "Forbidden")
         /\ UNCHANGED db
    ELSE LET pool == CHOOSE p \in found : TRUE
         IN /\ pools' = (pools \ {pool}) \cup {[pool EXCEPT !.is_public = is_public]}
            /\ resp' = [op |-> "change_pool_visibility", user |-> user.id,
                        status |-> "ok", pool_id |-> pool_id]
            /\ UNCHANGED <<posts, tags, tag_post, pool_post, seq>>

DeletePool(user, pool_id) ==
    LET found == find_by_id(pools, pool_id) IN
    IF found = {}
    THEN /\ resp' = Fail("delete_pool", user, "NotFound")
         /\ UNCHANGED db
    ELSE IF ~can_edit(user, CHOOSE p \in found : TRUE)
    THEN /\ resp' = Fail("delete_pool", user, "Forbidden")
         /\ UNCHANGED db
    ELSE /\ pools' = pools \ found
         /\ pool_post' = {m \in pool_post : m.pool_id # pool_id}
         /\ resp' = [op |-> "delete_pool", user |-> user.id, status |-> "ok",
                     pool_id |-> pool_id]
         /\ UNCHANGED <<posts, tags, tag_post, seq>>

----------------------------------------------------------------------------
(* add_post_to_pool, remove_pool_post *)

\* f32::floor of a non-negative position
floor(x) == (x \div Unit) * Unit

\* MAX(position) over the memberships of the pool, LEFT JOINed: NULL for none
max_position(pool_id) ==
    LET ps == {m.position : m \in {n \in pool_post : n.pool_id = pool_id}}
    IN IF ps = {} THEN <<>>
       ELSE <<CHOOSE x \in ps : \A y \in ps : y <= x>>

\* mutant: the maximum is not floored
append_position_no_floor(max) ==
    (IF max = <<>> THEN 0 ELSE max[1]) + Unit

\* pool.max_position.unwrap_or(0.0).floor() + 1.0
append_position(max) ==
    floor(IF max = <<>> THEN 0 ELSE max[1]) + Unit

\* mutant: the table without its unique index
pool_post_no_unique_index(pool_id, post_id) == FALSE

\* the unique index on (pool_id, post_id) rejects the INSERT
pool_post_unique_violation(pool_id, post_id) ==
    \E m \in pool_post : m.pool_id = pool_id /\ m.post_id = post_id

AddPostToPool(user, pool_id, post_id) ==
    LET found == find_by_id(pools, pool_id) IN
    IF found = {}
    THEN /\ resp' = Fail("add_post_to_pool", user, "NotFound")
         /\ UNCHANGED db
    ELSE IF ~can_edit(user, CHOOSE p \in found : TRUE)
    THEN /\ resp' = Fail("add_post_to_pool", user, "Forbidden")
         /\ UNCHANGED db
    ELSE IF filter_posts_by_user(find_by_id(posts, post_id), user) = {}
    THEN /\ resp' = Fail("add_post_to_pool", user, "NotFound")
         /\ UNCHANGED db
    ELSE IF pool_post_unique_violation(pool_id, post_id)
    THEN /\ resp' = [op |-> "add_post_to_pool", user |-> user.id,
                     status |-> "Database", pool_id |-> pool_id,
                     post_id |-> post_id]
         /\ UNCHANGED db
    ELSE LET position == append_position(max_position(pool_id))
         IN /\ seq.pool_post < MaxMembers
            /\ position <= MaxCoord * Unit
            /\ pool_post' = pool_post \cup
                 {[id |-> seq.pool_post + 1, pool_id |-> pool_id,
                   post_id |-> post_id, position |-> position]}
            /\ seq' = [seq EXCEPT !.pool_post = seq.pool_post + 1]
            /\ UNCHANGED <<posts, tags, tag_post, pools>>
            /\ \E listing \in get_posts_in_pool(pool_id, user)' :
                 resp' = [op |-> "add_post_to_pool", user |-> user.id,
                          status |-> "ok", pool_id |-> pool_id,
                          post_id |-> post_id, position |-> position,
                          posts |-> listing]

\* add_post_to_pool, statement by statement, for a caller who may edit the
\* pool: the pool is read with its MAX(position), then the post, then the
\* membership is inserted, then the listing of the response is read
AddReadPool(r, user, pool_id, post_id) ==
    LET found == find_by_id(pools, pool_id) IN
    /\ inflight[r] = Idle
    /\ found # {}
    /\ can_edit(user, CHOOSE p \in found : TRUE)
    /\ inflight' = [inflight EXCEPT ![r] =
           [pc |-> "find_post", op |-> "add_post_to_pool", user |-> user.id,
            pool_id |-> pool_id, post_id |-> post_id,
            max_position |-> max_position(pool_id)]]
    /\ UNCHANGED <<db, resp>>

AddFindPost(r) ==
    /\ inflight[r].pc = "find_post"
    /\ IF filter_posts_by_user(find_by_id(posts, inflight[r].post_id),
                               UserById(inflight[r].user)) = {}
       THEN /\ resp' = Fail("add_post_to_pool", UserById(inflight[r].user), "NotFound")
            /\ inflight' = [inflight EXCEPT ![r] = Answered]
       ELSE /\ inflight' = [inflight EXCEPT ![r].pc = "insert"]
            /\ UNCHANGED resp
    /\ UNCHANGED db

AddInsert(r) ==
    /\ inflight[r].pc = "insert"
    /\ IF pool_post_unique_violation(inflight[r].pool_id, inflight[r].post_id)
       THEN /\ resp' = [op |-> "add_post_to_pool", user |-> inflight[r].user,
                        status |-> "Database", pool_id |-> inflight[r].pool_id,
                        post_id |-> inflight[r].post_id]
            /\ inflight' = [inflight EXCEPT ![r] = Answered]
            /\ UNCHANGED db
       ELSE LET position == append_position(inflight[r].max_position)
            IN /\ seq.pool_post < MaxMembers
               /\ position <= MaxCoord * Unit
               /\ pool_post' = pool_post \cup
                    {[id |-> seq.pool_post + 1, pool_id |-> inflight[r].pool_id,
                      post_id |-> inflight[r].post_id, position |-> position]}
               /\ seq' = [seq EXCEPT !.pool_post = seq.pool_post + 1]
               /\ inflight' = [inflight EXCEPT ![r].pc = "respond"]
               /\ UNCHANGED <<posts, tags, tag_post, pools, resp>>

AddRespond(r) ==
    /\ inflight[r].pc = "respond"
    /\ \E listing \in get_posts_in_pool(inflight[r].pool_id, UserById(inflight[r].user)) :
         resp' = [op |-> "add_post_to_pool", user |-> inflight[r].user,
                  status |-> "ok", pool_id |-> inflight[r].pool_id,
                  post_id |-> inflight[r].post_id,
                  position |-> append_position(inflight[r].max_position),
                  posts |-> listing]
    /\ inflight' = [inflight EXCEPT ![r] = Answered]
    /\ UNCHANGED db

RemovePoolPost(user, pool_post_id) ==
    LET found == find_by_id(pool_post, pool_post_id) IN
    IF found = {}
    THEN /\ resp' = Fail("remove_pool_post", user, "NotFound")
         /\ UNCHANGED db
    ELSE LET pool_post_row == CHOOSE m \in found : TRUE
             pool == CHOOSE p \in pools : p.id = pool_post_row.pool_id
         IN IF ~can_edit(user, pool)
            THEN /\ resp' = Fail("remove_pool_post", user, "Forbidden")
                 /\ UNCHANGED db
            ELSE /\ pool_post' = pool_post \ found
                 /\ resp' = [op |-> "remove_pool_post", user |-> user.id,
                             status |-> "ok", pool_post_id |-> pool_post_id]
                 /\ UNCHANGED <<posts, tags, tag_post, pools, seq>>

----------------------------------------------------------------------------
(* sort_pool *)

\* usize::checked_sub(1)
checked_sub_1(n) == IF n >= 1 THEN <<n - 1>> ELSE <<>>

\* mutant: the lower bound ignores the direction of the move
min_index_down_only(old_index, new_index) == <<new_index>>

\* the indices are 0-based as in the source; listing[i + 1] is posts[i]
min_index(old_index, new_index) ==
    IF new_index < old_index THEN checked_sub_1(new_index) ELSE <<new_index>>

max_index(old_index, new_index, len) ==
    IF new_index = saturating_sub(len, 1) THEN <<>>
    ELSE IF new_index < old_index THEN <<new_index>>
    ELSE <<new_index + 1>>

\* posts[index] panics when index >= posts.len()
sort_panics(listing, old_index, new_index) ==
    LET lo == min_index(old_index, new_index)
        hi == max_index(old_index, new_index, Len(listing))
    IN \/ lo # <<>> /\ lo[1] >= Len(listing)
       \/ hi # <<>> /\ hi[1] >= Len(listing)

sort_min(listing, old_index, new_index) ==
    LET lo == min_index(old_index, new_index)
    IN IF lo = <<>> THEN 0 ELSE listing[lo[1] + 1].position

sort_max(listing, old_index, new_index) ==
    LET hi == max_index(old_index, new_index, Len(listing))
    IN IF hi # <<>> THEN listing[hi[1] + 1].position
       ELSE (IF Len(listing) > 0 THEN listing[Len(listing)].position
             ELSE sort_min(listing, old_index, new_index)) + 2 * Unit

\* mutant: the UPDATE finds its rows by the post of the membership
update_position_by_post(pool_post_id, position) ==
    LET row == CHOOSE m \in pool_post : m.id = pool_post_id
    IN {IF m.post_id = row.post_id THEN [m EXCEPT !.position = position] ELSE m :
           m \in pool_post}

\* SameyPoolPost::update of { id, position }: the row of that id, no other column
update_position(pool_post_id, position) ==
    {IF m.id = pool_post_id THEN [m EXCEPT !.position = position] ELSE m :
        m \in pool_post}

SortPoolResp(user, pool_id, old_index, new_index, status, before, after) ==
    [op |-> "sort_pool", user |-> user.id, status |-> status,
     pool_id |-> pool_id, old_index |-> old_index, new_index |-> new_index,
     before |-> before, posts |-> after]

SortPool(user, pool_id, old_index, new_index) ==
    LET found == find_by_id(pools, pool_id)
        Error(status) ==
            /\ resp' = SortPoolResp(user, pool_id, old_index, new_index,
                                    status, <<>>, <<>>)
            /\ UNCHANGED db
    IN
    IF found = {} THEN Error("NotFound")
    ELSE IF ~can_edit(user, CHOOSE p \in found : TRUE) THEN Error("Forbidden")
    ELSE IF old_index = new_index
    THEN /\ UNCHANGED db
         /\ \E after \in get_posts_in_pool(pool_id, user) :
              resp' = SortPoolResp(user, pool_id, old_index, new_index,
                                   "ok", <<>>, after)
    ELSE \E listing \in get_posts_in_pool(pool_id, user) :
           IF old_index >= Len(listing) THEN Error("NotFound")
           ELSE IF sort_panics(listing, old_index, new_index) THEN Error("panic")
           ELSE LET changed_post == listing[old_index + 1]
                    min == sort_min(listing, old_index, new_index)
                    max == sort_max(listing, old_index, new_index)
                    position == (min + max) \div 2
                    row == CHOOSE m \in pool_post : m.id = changed_post.pool_post_id
                IN /\ (min + max) % 2 = 0
                   /\ position <= MaxCoord * Unit
                   /\ pool_post' = update_position(row.id, position)
                   /\ UNCHANGED <<posts, tags, tag_post, pools, seq>>
                   /\ \E after \in get_posts_in_pool(pool_id, user)' :
                        resp' = SortPoolResp(user, pool_id, old_index, new_index,
                                             "ok", listing, after)

----------------------------------------------------------------------------
(* sort_pool, statement by statement, for a request that gets as far as the *)
(* UPDATE: the listing is read, the position is computed from it, and the   *)
(* UPDATE and the listing of the response are awaited one after the other   *)

\* mutant: the position is computed from the listing at the time of the UPDATE
sort_position_reread(r) ==
    LET listings == get_posts_in_pool(inflight[r].pool_id, UserById(inflight[r].user))
        listing == CHOOSE l \in listings : TRUE
    IN (sort_min(listing, inflight[r].old_index, inflight[r].new_index)
        + sort_max(listing, inflight[r].old_index, inflight[r].new_index)) \div 2

\* (min + max) / 2.0 of the listing that the request has read
sort_position(r) ==
    (sort_min(inflight[r].posts, inflight[r].old_index, inflight[r].new_index)
     + sort_max(inflight[r].posts, inflight[r].old_index, inflight[r].new_index)) \div 2

SortPoolRead(r, user, pool_id, old_index, new_index) ==
    LET found == find_by_id(pools, pool_id) IN
    /\ inflight[r] = Idle
    /\ found # {}
    /\ can_edit(user, CHOOSE p \in found : TRUE)
    /\ old_index # new_index
    /\ \E listing \in get_posts_in_pool(pool_id, user) :
         /\ old_index < Len(listing)
         /\ ~sort_panics(listing, old_index, new_index)
         /\ LET min == sort_min(listing, old_index, new_index)
                max == sort_max(listing, old_index, new_index)
            IN /\ (min + max) % 2 = 0
               /\ (min + max) \div 2 <= MaxCoord * Unit
         /\ inflight' = [inflight EXCEPT ![r] =
                [pc |-> "update", op |-> "sort_pool", user |-> user.id,
                 pool_id |-> pool_id, old_index |-> old_index,
                 new_index |-> new_index, posts |-> listing]]
    /\ UNCHANGED <<db, resp>>

SortPoolUpdate(r) ==
    /\ inflight[r].pc = "update"
    /\ LET changed_post == inflight[r].posts[inflight[r].old_index + 1]
       IN pool_post' = update_position(changed_post.pool_post_id, sort_position(r))
    /\ inflight' = [inflight EXCEPT ![r].pc = "respond"]
    /\ UNCHANGED <<posts, tags, tag_post, pools, seq, resp>>

SortPoolRespond(r) ==
    /\ inflight[r].pc = "respond"
    /\ \E after \in get_posts_in_pool(inflight[r].pool_id, UserById(inflight[r].user)) :
         resp' = SortPoolResp(UserById(inflight[r].user), inflight[r].pool_id,
                              inflight[r].old_index, inflight[r].new_index,
                              "ok", inflight[r].posts, after)
    /\ inflight' = [inflight EXCEPT ![r] = Answered]
    /\ UNCHANGED db

----------------------------------------------------------------------------
(* Reading pools *)

\* mutant: no filter on the pools of a post
filter_pools_by_user_none(rows, user) == rows

\* the three-armed match on the caller over samey_pool, as in
\* get_pool_data_for_post
filter_pools_by_user(rows, user) ==
    IF is_none(user) THEN {p \in rows : p.is_public}
    ELSE IF user.is_admin THEN rows
    ELSE {p \in rows : p.is_public \/ p.uploader_id = user.id}

\* the rows in ascending id (a scan of the table without ORDER BY)
RECURSIVE OrderByIdAsc(_)
OrderByIdAsc(rows) ==
    IF rows = {} THEN <<>>
    ELSE LET r == CHOOSE x \in rows : \A y \in rows : x.id <= y.id
         IN <<r>> \o OrderByIdAsc(rows \ {r})

GetPoolsPage(user, page) ==
    LET query ==
            IF is_none(user) THEN {p \in pools : p.is_public}
            ELSE IF user.is_admin THEN pools
            ELSE {p \in pools : p.is_public \/ p.uploader_id = user.id}
        found == OrderByIdAsc(query)
    IN /\ resp' = [op |-> "get_pools_page", user |-> user.id, status |-> "ok",
                   page |-> page,
                   page_count |-> num_pages(found, PoolsPageSize),
                   pools |-> fetch_page(found, PoolsPageSize,
                                        saturating_sub(page, 1))]
       /\ UNCHANGED db

ViewPool(user, pool_id) ==
    LET found == find_by_id(pools, pool_id) IN
    IF found = {}
    THEN /\ resp' = Fail("view_pool", user, "NotFound")
         /\ UNCHANGED db
    ELSE LET pool == CHOOSE p \in found : TRUE
         IN IF ~pool.is_public /\ ~can_edit(user, pool)
            THEN /\ resp' = Fail("view_pool", user, "NotFound")
                 /\ UNCHANGED db
            ELSE /\ \E listing \in get_posts_in_pool(pool_id, user) :
                      resp' = [op |-> "view_pool", user |-> user.id,
                               status |-> "ok", pool_id |-> pool_id,
                               posts |-> listing]
                 /\ UNCHANGED db

\* the pools of a post that the caller may see, each with the position of the
\* post in it
pools_of_post(post_id, user) ==
    {[id |-> m.pool_id, position |-> m.position] :
        m \in {n \in pool_post :
                  /\ n.post_id = post_id
                  /\ find_by_id(filter_pools_by_user(pools, user), n.pool_id) # {}}}

\* what binary_search_by(position) may yield for one pool: a PostPoolData for
\* each listing order and each index of equal position
pool_data_candidates(pool, user) ==
    {[id |-> pool.id,
      previous_post_id |-> IF i > 1 THEN <<listing[i - 1].id>> ELSE <<>>,
      next_post_id |-> IF i < Len(listing) THEN <<listing[i + 1].id>> ELSE <<>>] :
        <<listing, i>> \in
            {x \in get_posts_in_pool(pool.id, user) \X (1..Cardinality(pool_post)) :
                x[2] <= Len(x[1]) /\ x[1][x[2]].position = pool.position}}

\* get_pool_data_for_post: the possible results, one PostPoolData for each
\* pool in whose listing the position is found
get_pool_data_for_post(post_id, user) ==
    LET rows == pools_of_post(post_id, user)
        all == UNION {pool_data_candidates(r, user) : r \in rows}
    IN {chosen \in SUBSET all :
           \A r \in rows :
               Cardinality(chosen \cap pool_data_candidates(r, user))
                   = IF pool_data_candidates(r, user) = {} THEN 0 ELSE 1}

----------------------------------------------------------------------------
(* Reading one post *)

get_tags_for_post(post_id) ==
    {t \in tags : [post_id |-> post_id, tag_id |-> t.id] \in tag_post}

ViewPostPage(user, post_id) ==
    LET found == find_by_id(posts, post_id) IN
    IF found = {}
    THEN /\ resp' = Fail("view_post_page", user, "NotFound")
         /\ UNCHANGED db
    ELSE LET post == CHOOSE p \in found : TRUE
             parent_post ==
                 IF post.parent_id # 0
                 THEN filter_posts_by_user(find_by_id(posts, post.parent_id), user)
                 ELSE {}
             children_posts ==
                 filter_posts_by_user({p \in posts : p.parent_id = post_id}, user)
         IN IF ~post.is_public /\ ~can_edit(user, post)
            THEN /\ resp' = Fail("view_post_page", user, "NotFound")
                 /\ UNCHANGED db
            ELSE /\ \E pool_data \in get_pool_data_for_post(post_id, user) :
                      resp' = [op |-> "view_post_page", user |-> user.id,
                               status |-> "ok", post_id |-> post_id,
                               tags |-> {t.name : t \in get_tags_for_post(post_id)},
                               parent_post |-> {p.id : p \in parent_post},
                               children_posts |-> {p.id : p \in children_posts},
                               pool_data |-> pool_data]
                 /\ UNCHANGED db

PostDetails(user, post_id) ==
    LET found == find_by_id(posts, post_id) IN
    IF found = {}
    THEN /\ resp' = Fail("post_details", user, "NotFound")
         /\ UNCHANGED db
    ELSE LET post == CHOOSE p \in found : TRUE
         IN IF ~post.is_public /\ ~can_edit(user, post)
            THEN /\ resp' = Fail("post_details", user, "NotFound")
                 /\ UNCHANGED db
            ELSE /\ resp' = [op |-> "post_details", user |-> user.id,
                             status |-> "ok", post_id |-> post_id]
                 /\ UNCHANGED db

----------------------------------------------------------------------------
(* delete_post: the row, and by the foreign keys its associations and       *)
(* memberships; parent_id of its children becomes NULL                      *)

DeletePost(user, post_id) ==
    LET found == find_by_id(posts, post_id) IN
    IF found = {}
    THEN /\ resp' = Fail("delete_post", user, "NotFound")
         /\ UNCHANGED db
    ELSE IF ~can_edit(user, CHOOSE p \in found : TRUE)
    THEN /\ resp' = Fail("delete_post", user, "Forbidden")
         /\ UNCHANGED db
    ELSE /\ posts' = {IF p.parent_id = post_id THEN [p EXCEPT !.parent_id = 0] ELSE p :
                         p \in posts \ found}
         /\ tag_post' = {tp \in tag_post : tp.post_id # post_id}
         /\ pool_post' = {m \in pool_post : m.post_id # post_id}
         /\ resp' = [op |-> "delete_post", user |-> user.id, status |-> "ok",
                     post_id |-> post_id]
         /\ UNCHANGED <<tags, pools, seq>>

----------------------------------------------------------------------------
(* edit_tag: rename a tag, or merge it into the tag that has the new name *)

EditTagResp(user, tags_text, new_tag_text, status, old_tag_db, new_tag_db, rows_affected) ==
    [op |-> "edit_tag", user |-> user.id, status |-> status,
     tags |-> tags_text, new_tag |-> new_tag_text,
     old_tag_db |-> old_tag_db, new_tag_db |-> new_tag_db,
     rows_affected |-> rows_affected]

\* mutant: the UPDATE without the NOT IN filter
edit_tag_updated_all(old_id, new_id) ==
    {tp \in tag_post : tp.tag_id = old_id}

\* the rows of the UPDATE: tag_id = old and post_id NOT IN (posts of new)
edit_tag_updated(old_id, new_id) ==
    LET subquery == {tp.post_id : tp \in {x \in tag_post : x.tag_id = new_id}}
    IN {tp \in tag_post : tp.tag_id = old_id /\ tp.post_id \notin subquery}

EditTag(user, tags_text, new_tag_text) ==
    LET old_tag == split_whitespace(tags_text)
        new_tag == split_whitespace(new_tag_text)
    IN
    IF is_none(user) \/ ~user.is_admin
    THEN /\ resp' = EditTagResp(user, tags_text, new_tag_text, "Forbidden", {}, {}, 0)
         /\ UNCHANGED db
    ELSE IF Len(old_tag) # 1 \/ Len(new_tag) # 1
    THEN /\ resp' = EditTagResp(user, tags_text, new_tag_text, "Failure", {}, {}, 0)
         /\ UNCHANGED db
    ELSE LET normalized_old_tag == to_lowercase(old_tag[1])
             normalized_new_tag == to_lowercase(new_tag[1])
             old_found == {t \in tags : t.normalized_name = normalized_old_tag}
             new_found == {t \in tags : t.normalized_name = normalized_new_tag}
         IN
         IF old_found = {}
         THEN /\ resp' = EditTagResp(user, tags_text, new_tag_text, "NotFound", {}, {}, 0)
              /\ UNCHANGED db
         ELSE LET old_tag_db == CHOOSE t \in old_found : TRUE IN
              IF new_found # {}
              THEN LET new_tag_db == CHOOSE t \in new_found : TRUE
                       updated == edit_tag_updated(old_tag_db.id, new_tag_db.id)
                       set_rows == {[post_id |-> tp.post_id, tag_id |-> new_tag_db.id] :
                                       tp \in updated}
                       \* the unique index on (post_id, tag_id)
                       conflict == set_rows \cap (tag_post \ updated) # {}
                   IN IF conflict
                      THEN /\ resp' = EditTagResp(user, tags_text, new_tag_text, "Database",
                                                  {old_tag_db.id}, {new_tag_db.id}, 0)
                           /\ UNCHANGED db
                      ELSE /\ tags' = tags \ {old_tag_db}
                           \* ON DELETE CASCADE from samey_tag
                           /\ tag_post' = {tp \in (tag_post \ updated) \cup set_rows :
                                              tp.tag_id # old_tag_db.id}
                           /\ resp' = EditTagResp(user, tags_text, new_tag_text, "ok",
                                                  {old_tag_db.id}, {new_tag_db.id},
                                                  Cardinality(updated))
                           /\ UNCHANGED <<posts, pools, pool_post, seq>>
              ELSE /\ tags' = (tags \ {old_tag_db}) \cup
                        {[id |-> old_tag_db.id, name |-> new_tag[1],
                          normalized_name |-> normalized_new_tag]}
                   /\ resp' = EditTagResp(user, tags_text, new_tag_text, "ok",
                                          {old_tag_db.id}, {}, 0)
                   /\ UNCHANGED <<posts, tag_post, pools, pool_post, seq>>

----------------------------------------------------------------------------
(* clean_dangling_tags *)

\* mutant: HAVING count <= 1
dangling_tags_at_most_one ==
    {t \in tags : Cardinality({tp \in tag_post : tp.tag_id = t.id}) <= 1}

\* samey_tag LEFT JOIN samey_tag_post GROUP BY tag.id HAVING COUNT(tag_post.id) = 0
dangling_tags ==
    {t \in tags : Cardinality({tp \in tag_post : tp.tag_id = t.id}) = 0}

CleanDanglingTags ==
    LET ids == {t.id : t \in dangling_tags}
    IN /\ tags' = {t \in tags : t.id \notin ids}
       \* ON DELETE CASCADE from samey_tag
       /\ tag_post' = {tp \in tag_post : tp.tag_id \notin ids}
       /\ resp' = [op |-> "clean_dangling_tags", user |-> NoUser.id,
                   status |-> "ok", deleted |-> ids]
       /\ UNCHANGED <<posts, pools, pool_post, seq>>

\* clean_dangling_tags, statement by statement: the SELECT of the unused
\* tags is awaited, then the DELETE of the ids it returned
CleanSelect(r) ==
    /\ inflight[r] = Idle
    /\ inflight' = [inflight EXCEPT ![r] =
           [pc |-> "delete_many", op |-> "clean_dangling_tags",
            dangling |-> {t.id : t \in dangling_tags}]]
    /\ UNCHANGED <<db, resp>>

CleanDelete(r) ==
    /\ inflight[r].pc = "delete_many"
    /\ tags' = {t \in tags : t.id \notin inflight[r].dangling}
    \* ON DELETE CASCADE from samey_tag
    /\ tag_post' = {tp \in tag_post : tp.tag_id \notin inflight[r].dangling}
    /\ resp' = [op |-> "clean_dangling_tags", user |-> NoUser.id,
                status |-> "ok", deleted |-> inflight[r].dangling]
    /\ inflight' = [inflight EXCEPT ![r] = Idle]
    /\ UNCHANGED <<posts, pools, pool_post, seq>>

----------------------------------------------------------------------------
(* Inputs of the search specification *)

Str_a == <<"a">>
Str_b == <<"b">>
Str_A_b == <<"A", " ", "b">>
Str_a_b == <<"a", " ", "b">>
Str_u == <<"u">>
Str_s == <<"s">>

\* the tag row of the first upload with the text "a"
TagA == [id |-> 1, name |-> Str_a, normalized_name |-> Str_a]

UploadTexts == {<<>>, Str_a, Str_a_b}
EditTexts == {<<>>, Str_b, Str_A_b}
EditRatings == {Str_u, Str_s}

Queries ==
    { <<>>,
      <<Str_a>>,
      <<Str_A_b>>,
      <<NEGATIVE_PREFIX \o Str_b>>,
      <<NEGATIVE_PREFIX \o Str_a \o <<" ">> \o NEGATIVE_PREFIX \o Str_b>>,
      <<Str_a \o <<" ">> \o NEGATIVE_PREFIX \o Str_b>>,
      <<RATING_PREFIX \o Str_s>>,
      <<NEGATIVE_PREFIX \o RATING_PREFIX \o Str_u>>,
      <<Str_a \o <<" ">> \o RATING_PREFIX \o Str_s>>,
      <<NEGATIVE_PREFIX \o Str_b \o <<" ">> \o NEGATIVE_PREFIX \o RATING_PREFIX \o Str_s>> }

NextSearch ==
    \/ \E u \in {Alice, NoUser}, text \in UploadTexts, m \in BOOLEAN :
         seq.post < MaxSearchPosts /\ Upload(u, text, m) /\ UNCHANGED inflight
    \/ \E u \in {Alice, Bob}, id \in 1..MaxSearchPosts, pub \in BOOLEAN,
          rating \in EditRatings, text \in EditTexts :
         SubmitPostDetails(u, id, pub, rating, text, <<>>) /\ UNCHANGED inflight
    \/ \E u \in Callers, q \in Queries : PostsPage(u, q, 1) /\ UNCHANGED inflight

SpecSearch == Init /\ [][NextSearch]_vars

----------------------------------------------------------------------------
(* The pool specification: one owner who uploads, tags and untags posts,    *)
(* and fills and reorders pools                                             *)

PoolNames == {<<"p">>}
PoolTexts == {<<>>, Str_a}

NextPool ==
    \/ \E text \in PoolTexts :
         seq.post < MaxPoolPosts /\ Upload(Alice, text, TRUE) /\ UNCHANGED inflight
    \/ \E id \in 1..MaxPoolPosts, text \in PoolTexts :
         SubmitPostDetails(Alice, id, FALSE, Str_u, text, <<>>) /\ UNCHANGED inflight
    \/ \E name \in PoolNames : CreatePool(Alice, name) /\ UNCHANGED inflight
    \/ \E pool_id \in 1..MaxPools, post_id \in 1..MaxPoolPosts :
         AddPostToPool(Alice, pool_id, post_id) /\ UNCHANGED inflight
    \/ \E id \in 1..MaxMembers : RemovePoolPost(Alice, id) /\ UNCHANGED inflight
    \/ \E pool_id \in 1..MaxPools, old_index, new_index \in 0..MaxPoolPosts - 1 :
         SortPool(Alice, pool_id, old_index, new_index) /\ UNCHANGED inflight

SpecPool == Init /\ [][NextPool]_vars

----------------------------------------------------------------------------
(* Inputs of the tag specification: names that differ in case, uploads that *)
(* fail after the tags were stored, edits that replace the tags, renames    *)
(* and merges by the admin, the collection of unused tags                   *)

Str_A == <<"A">>
Str_A_a == <<"A", " ", "a">>

TagTexts == {<<>>, Str_a, Str_b, Str_a_b, Str_A_a}
EditTagTexts == {Str_a, Str_b, Str_A, Str_a_b}

NextTags ==
    \/ \E text \in TagTexts, m \in BOOLEAN :
         seq.post < MaxTagPosts /\ Upload(Alice, text, m) /\ UNCHANGED inflight
    \/ \E id \in 1..MaxTagPosts, text \in TagTexts :
         SubmitPostDetails(Alice, id, FALSE, Str_u, text, <<>>) /\ UNCHANGED inflight
    \/ \E u \in {Admin, Alice}, tags_text \in EditTagTexts, new_tag_text \in EditTagTexts :
         EditTag(u, tags_text, new_tag_text) /\ UNCHANGED inflight
    \/ CleanDanglingTags /\ UNCHANGED inflight

SpecTags == Init /\ [][NextTags]_vars

----------------------------------------------------------------------------
(* Inputs of the fault specification: the edits of SpecTags, and edits in   *)
(* which a statement of the tag replacement fails                           *)

NextFault ==
    \/ \E text \in TagTexts :
         seq.post < MaxTagPosts /\ Upload(Alice, text, TRUE) /\ UNCHANGED inflight
    \/ \E id \in 1..MaxTagPosts, text \in TagTexts :
         SubmitPostDetails(Alice, id, FALSE, Str_u, text, <<>>) /\ UNCHANGED inflight
    \/ \E id \in 1..MaxTagPosts, text \in TagTexts, failed \in FailedSteps :
         SubmitPostDetailsFails(Alice, id, FALSE, Str_u, text, <<>>, failed) /\ UNCHANGED inflight

SpecFault == Init /\ [][NextFault]_vars

----------------------------------------------------------------------------
(* Inputs of the upsert race: uploads that overlap, with names that are     *)
(* equal, equal but for case, or new                                        *)

RaceTexts == {Str_a, Str_A, Str_a_b}

NextUpsertRace ==
    \/ \E r \in Requests, text \in RaceTexts : UploadTagsField(r, Alice, text)
    \/ \E r \in Requests : UploadInsertMany(r)
    \/ \E r \in Requests : UploadFind(r)
    \/ \E r \in Requests : seq.post < MaxTagPosts /\ UploadMedia(r)

SpecUpsertRace == Init /\ [][NextUpsertRace]_vars

----------------------------------------------------------------------------
(* Inputs of the collection race: uploads and collection passes that overlap *)

NextCollectRace ==
    \/ \E r \in Requests, text \in {Str_a, Str_a_b} : UploadTagsField(r, Alice, text)
    \/ \E r \in Requests : UploadInsertMany(r)
    \/ \E r \in Requests : UploadFind(r)
    \/ \E r \in Requests : seq.post < MaxTagPosts /\ UploadMedia(r)
    \/ \E r \in Requests : CleanSelect(r)
    \/ \E r \in Requests : CleanDelete(r)

SpecCollectRace == Init /\ [][NextCollectRace]_vars

----------------------------------------------------------------------------
(* Inputs of the classifier: tokens with and without each prefix, in lower  *)
(* and upper case, with an empty rest, and words that look like a prefix    *)
(* or a rating value                                                        *)

Str_S == <<"S">>
Str_Rating_S == <<"R", "a", "t", "i", "n", "g", ":", "S">>
Str_RATING_s == <<"R", "A", "T", "I", "N", "G", ":", "s">>
Str_rating == <<"r", "a", "t", "i", "n", "g">>

Tokens ==
    { Str_a, Str_s, Str_S, Str_rating,
      RATING_PREFIX, RATING_PREFIX \o Str_s, Str_Rating_S, Str_RATING_s,
      NEGATIVE_PREFIX, NEGATIVE_PREFIX \o Str_a, NEGATIVE_PREFIX \o Str_S,
      NEGATIVE_PREFIX \o NEGATIVE_PREFIX \o Str_a,
      NEGATIVE_PREFIX \o Str_rating,
      NEGATIVE_PREFIX \o RATING_PREFIX, NEGATIVE_PREFIX \o RATING_PREFIX \o Str_s,
      NEGATIVE_PREFIX \o Str_Rating_S }

TokenLists == UNION {[1..n -> Tokens] : n \in 0..MaxTokens}

NextClassify ==
    \E tokens \in TokenLists : ClassifyTokens(tokens) /\ UNCHANGED inflight

SpecClassify == Init /\ [][NextClassify]_vars

----------------------------------------------------------------------------
(* Inputs of the completion specification: the search box holds one token   *)
(* or the tag "a", a space and one token; the caret is anywhere in it       *)

SearchBoxTexts == Tokens \cup {Str_a \o <<" ">> \o t : t \in Tokens}

NextComplete ==
    \/ \E text \in {Str_a, Str_A_b} :
         seq.post < MaxTagPosts /\ Upload(Alice, text, TRUE) /\ UNCHANGED inflight
    \/ \E text \in SearchBoxTexts, selection_end \in 0..(Len(RATING_PREFIX) + 4) :
         SearchTags(text, selection_end) /\ UNCHANGED inflight

SpecComplete == Init /\ [][NextComplete]_vars

----------------------------------------------------------------------------
(* Inputs of the empty-token specification: queries that hold a prefix with *)
(* nothing after it, alone or next to a tag                                 *)

PrefixOnlyTokens ==
    {NEGATIVE_PREFIX, RATING_PREFIX, NEGATIVE_PREFIX \o RATING_PREFIX}

PrefixOnlyQueries ==
    {<<>>, <<Str_a>>} \cup {<<t>> : t \in PrefixOnlyTokens}
        \cup {<<Str_a \o <<" ">> \o t>> : t \in PrefixOnlyTokens}

NextEmptyToken ==
    \/ \E text \in UploadTexts :
         seq.post < MaxSearchPosts /\ Upload(Alice, text, TRUE) /\ UNCHANGED inflight
    \/ \E id \in 1..MaxSearchPosts, rating \in EditRatings, text \in UploadTexts :
         SubmitPostDetails(Alice, id, TRUE, rating, text, <<>>) /\ UNCHANGED inflight
    \/ \E u \in {Alice, NoUser}, q \in PrefixOnlyQueries :
         PostsPage(u, q, 1) /\ UNCHANGED inflight

SpecEmptyToken == Init /\ [][NextEmptyToken]_vars

----------------------------------------------------------------------------
(* Inputs of the rating specification: the form field `rating` is a String, *)
(* the four values of the select box and one that is none of them           *)

Str_q == <<"q">>
Str_e == <<"e">>
Str_x == <<"x">>

FormRatings == {Str_u, Str_s, Str_q, Str_e, Str_x}

NextRating ==
    \/ seq.post < MaxTagPosts /\ Upload(Alice, Str_a, TRUE) /\ UNCHANGED inflight
    \/ \E id \in 1..MaxTagPosts, is_public \in BOOLEAN, rating \in FormRatings :
         SubmitPostDetails(Alice, id, is_public, rating, Str_a, <<>>)
           /\ UNCHANGED inflight
    \/ \E q \in {<<>>, <<RATING_PREFIX \o Str_x>>} :
         PostsPage(NoUser, q, 1) /\ UNCHANGED inflight

SpecRating == Init /\ [][NextRating]_vars

----------------------------------------------------------------------------
(* Inputs of the frame specification: two pools of one owner that hold the  *)
(* same two posts (the state after two uploads, two create_pool and four    *)
(* add_post_to_pool), sorted and shortened from there                       *)

InitTwoPools ==
    /\ posts = {[id |-> i, uploader_id |-> Alice.id, is_public |-> FALSE,
                 rating |-> Str_u, parent_id |-> 0] : i \in 1..2}
    /\ tags = {TagA}
    /\ tag_post = {[post_id |-> i, tag_id |-> TagA.id] : i \in 1..2}
    /\ pools = {[id |-> 1, name |-> <<"p">>, uploader_id |-> Alice.id,
                 is_public |-> FALSE],
                [id |-> 2, name |-> <<"q">>, uploader_id |-> Alice.id,
                 is_public |-> FALSE]}
    /\ pool_post = {[id |-> 2 * (k - 1) + i, pool_id |-> k, post_id |-> i,
                     position |-> i * Unit] : k \in 1..2, i \in 1..2}
    /\ seq = [post |-> 2, tag |-> 1, pool |-> 2, pool_post |-> 4]
    /\ resp = NoResp
    /\ inflight = [r \in Requests |-> Idle]

NextSortFrame ==
    \/ \E pool_id \in 1..2, old_index, new_index \in 0..2 :
         SortPool(Alice, pool_id, old_index, new_index) /\ UNCHANGED inflight
    \/ \E id \in 1..4 : RemovePoolPost(Alice, id) /\ UNCHANGED inflight

SpecSortFrame == InitTwoPools /\ [][NextSortFrame]_vars

----------------------------------------------------------------------------
(* Inputs of the sort race: one pool of three posts at 1.0, 2.0, 3.0 (the   *)
(* state after three uploads, create_pool and three add_post_to_pool), and  *)
(* sort requests of its owner that overlap                                  *)

InitPoolOfThree ==
    /\ posts = {[id |-> i, uploader_id |-> Alice.id, is_public |-> FALSE,
                 rating |-> Str_u, parent_id |-> 0] : i \in 1..3}
    /\ tags = {TagA}
    /\ tag_post = {[post_id |-> i, tag_id |-> TagA.id] : i \in 1..3}
    /\ pools = {[id |-> 1, name |-> <<"p">>, uploader_id |-> Alice.id,
                 is_public |-> FALSE]}
    /\ pool_post = {[id |-> i, pool_id |-> 1, post_id |-> i,
                     position |-> i * Unit] : i \in 1..3}
    /\ seq = [post |-> 3, tag |-> 1, pool |-> 1, pool_post |-> 3]
    /\ resp = NoResp
    /\ inflight = [r \in Requests |-> Idle]

NextSortRace ==
    \/ \E r \in Requests, old_index, new_index \in 0..2 :
         SortPoolRead(r, Alice, 1, old_index, new_index)
    \/ \E r \in Requests : SortPoolUpdate(r)
    \/ \E r \in Requests : SortPoolRespond(r)

SpecSortRace == InitPoolOfThree /\ [][NextSortRace]_vars

----------------------------------------------------------------------------
(* Inputs of the append race: a pool that holds the third of three posts    *)
(* (the state after three uploads, create_pool and one add_post_to_pool),   *)
(* and requests of its owner, each sent once, that add posts to it; a post  *)
(* id without a post is among the inputs                                    *)

InitPoolOfOne ==
    /\ posts = {[id |-> i, uploader_id |-> Alice.id, is_public |-> FALSE,
                 rating |-> Str_u, parent_id |-> 0] : i \in 1..3}
    /\ tags = {TagA}
    /\ tag_post = {[post_id |-> i, tag_id |-> TagA.id] : i \in 1..3}
    /\ pools = {[id |-> 1, name |-> <<"p">>, uploader_id |-> Alice.id,
                 is_public |-> FALSE]}
    /\ pool_post = {[id |-> 1, pool_id |-> 1, post_id |-> 3, position |-> Unit]}
    /\ seq = [post |-> 3, tag |-> 1, pool |-> 1, pool_post |-> 1]
    /\ resp = NoResp
    /\ inflight = [r \in Requests |-> Idle]

NextAddRace ==
    \/ \E r \in Requests, post_id \in 1..4 : AddReadPool(r, Alice, 1, post_id)
    \/ \E r \in Requests : AddFindPost(r)
    \/ \E r \in Requests : AddInsert(r)
    \/ \E r \in Requests : AddRespond(r)

SpecAddRace == InitPoolOfOne /\ [][NextAddRace]_vars

----------------------------------------------------------------------------
(* Inputs of the tag replacement race: one post tagged "a" (the state after *)
(* one upload), and requests of its uploader, each sent once, that replace  *)
(* its tags by none, "a", "b" or "a b"                                      *)

InitTaggedPost ==
    /\ posts = {[id |-> 1, uploader_id |-> Alice.id, is_public |-> FALSE,
                 rating |-> Str_u, parent_id |-> 0]}
    /\ tags = {TagA}
    /\ tag_post = {[post_id |-> 1, tag_id |-> TagA.id]}
    /\ pools = {}
    /\ pool_post = {}
    /\ seq = [post |-> 1, tag |-> 1, pool |-> 0, pool_post |-> 0]
    /\ resp = NoResp
    /\ inflight = [r \in Requests |-> Idle]

NextSubmitRace ==
    \/ \E r \in Requests, text \in {<<>>, Str_a, Str_b, Str_a_b} :
         SubmitUpdatePost(r, Alice, 1, FALSE, Str_u, text, <<>>)
    \/ \E r \in Requests : SubmitDeleteTagPost(r)
    \/ \E r \in Requests : SubmitInsertMany(r)
    \/ \E r \in Requests : SubmitFind(r)
    \/ \E r \in Requests : SubmitInsertTagPost(r)
    \/ \E r \in Requests : SubmitRespond(r)

SpecSubmitRace == InitTaggedPost /\ [][NextSubmitRace]_vars

----------------------------------------------------------------------------
(* Inputs of the anonymous-reader specification: an uploader who uploads,   *)
(* edits, publishes, hides and deletes posts, and a caller without a        *)
(* session who searches and reads the feed                                  *)

AnonQueries ==
    { <<>>, <<Str_a>>, <<Str_b>>, <<NEGATIVE_PREFIX \o Str_a>>,
      <<RATING_PREFIX \o Str_s>>, <<NEGATIVE_PREFIX \o RATING_PREFIX \o Str_s>>,
      <<Str_a \o <<" ">> \o NEGATIVE_PREFIX \o Str_b>> }

NextAnon ==
    \/ \E text \in {Str_a, Str_a_b} :
         seq.post < MaxVisPosts /\ Upload(Alice, text, TRUE) /\ UNCHANGED inflight
    \/ \E id \in 1..MaxVisPosts, is_public \in BOOLEAN, rating \in EditRatings,
          text \in {<<>>, Str_a, Str_b} :
         SubmitPostDetails(Alice, id, is_public, rating, text, <<>>) /\ UNCHANGED inflight
    \/ \E id \in 1..MaxVisPosts : DeletePost(Alice, id) /\ UNCHANGED inflight
    \/ \E q \in AnonQueries : PostsPage(NoUser, q, 1) /\ UNCHANGED inflight
    \/ \E q \in AnonQueries : RssPage(q) /\ UNCHANGED inflight

SpecAnon == Init /\ [][NextAnon]_vars

----------------------------------------------------------------------------
(* Inputs of the findable-tag specification: tag texts that look like       *)
(* search prefixes, in the upload form and in the edit form                 *)

Str_minus_a == NEGATIVE_PREFIX \o Str_a
Str_rating_s == RATING_PREFIX \o Str_s

PrefixedTexts == {Str_a, Str_minus_a, Str_rating_s, Str_Rating_S}

NextFindable ==
    \/ \E text \in PrefixedTexts :
         seq.post < MaxTagPosts /\ Upload(Alice, text, TRUE) /\ UNCHANGED inflight
    \/ \E id \in 1..MaxTagPosts, text \in PrefixedTexts :
         SubmitPostDetails(Alice, id, FALSE, Str_u, text, <<>>) /\ UNCHANGED inflight
    \/ \E q \in PrefixedTexts : PostsPage(Alice, <<q>>, 1) /\ UNCHANGED inflight

SpecFindable == Init /\ [][NextFindable]_vars

----------------------------------------------------------------------------
(* Inputs of the visibility specification: two owners, posts that change    *)
(* visibility and parent, one pool that changes visibility, every reader    *)

Parents == {<<>>, <<1>>}

NextVis ==
    \/ \E u \in {Alice, Bob} :
         seq.post < MaxVisPosts /\ Upload(u, Str_a, TRUE) /\ UNCHANGED inflight
    \/ \E u \in {Alice, Bob}, id \in 1..MaxVisPosts, is_public \in BOOLEAN,
          parent \in Parents :
         SubmitPostDetails(u, id, is_public, Str_u, Str_a, parent) /\ UNCHANGED inflight
    \/ \E u \in {Alice, Bob}, name \in PoolNames : CreatePool(u, name) /\ UNCHANGED inflight
    \/ \E u \in {Alice, Bob}, pool_id \in 1..MaxPools, is_public \in BOOLEAN :
         ChangePoolVisibility(u, pool_id, is_public) /\ UNCHANGED inflight
    \/ \E u \in {Alice, Bob}, pool_id \in 1..MaxPools, post_id \in 1..MaxVisPosts :
         AddPostToPool(u, pool_id, post_id) /\ UNCHANGED inflight
    \/ \E u \in Callers : PostsPage(u, <<>>, 1) /\ UNCHANGED inflight
    \/ RssPage(<<>>) /\ UNCHANGED inflight
    \/ \E u \in Callers, post_id \in 1..MaxVisPosts : ViewPostPage(u, post_id) /\ UNCHANGED inflight
    \/ \E u \in Callers, post_id \in 1..MaxVisPosts : PostDetails(u, post_id) /\ UNCHANGED inflight
    \/ \E u \in Callers : GetPoolsPage(u, 1) /\ UNCHANGED inflight
    \/ \E u \in Callers, pool_id \in 1..MaxPools : ViewPool(u, pool_id) /\ UNCHANGED inflight

SpecVis == Init /\ [][NextVis]_vars

----------------------------------------------------------------------------
(* Inputs of the pagination specification: the table after n uploads by one *)
(* user, all tagged "a" or none tagged, the oldest one still private or all *)
(* made public                                                              *)

InitPages ==
    \E n \in 0..MaxRows, private \in 0..1, tagged \in BOOLEAN :
        /\ posts = {[id |-> i, uploader_id |-> Alice.id, is_public |-> i > private,
                     rating |-> Str_u, parent_id |-> 0] : i \in 1..n}
        /\ tags = IF tagged /\ n > 0 THEN {TagA} ELSE {}
        /\ tag_post = IF tagged THEN {[post_id |-> i, tag_id |-> TagA.id] : i \in 1..n}
                      ELSE {}
        /\ pools = {}
        /\ pool_post = {}
        /\ seq = [post |-> n, tag |-> IF tagged /\ n > 0 THEN 1 ELSE 0,
                  pool |-> 0, pool_post |-> 0]
        /\ resp = NoResp
        /\ inflight = [r \in Requests |-> Idle]

Pages == 0..3

NextPages ==
    \E u \in {NoUser, Alice}, query \in {<<>>, <<Str_a>>}, page \in Pages :
        PostsPage(u, query, page) /\ UNCHANGED inflight

SpecPages == InitPages /\ [][NextPages]_vars

----------------------------------------------------------------------------
(* What the claims speak of *)

\* post p is associated with the tag of normalized name n
HasTag(p, n) ==
    \E t \in tags :
        /\ t.normalized_name = n
        /\ \E tp \in tag_post : tp.post_id = p.id /\ tp.tag_id = t.id

\* the visibility predicate for the caller of id uid (0: anonymous)
VisibleTo(row, uid) ==
    \/ row.is_public
    \/ uid # 0 /\ row.uploader_id = uid
    \/ uid # 0 /\ \E u \in Users : u.id = uid /\ u.is_admin

\* the response is a search whose page shows the whole result
IsSearch ==
    /\ resp.op = "posts_page"
    /\ resp.page <= 1
    /\ Cardinality(posts) <= PostsPageSize

Returned == {resp.posts[i].id : i \in DOMAIN resp.posts}

\* the lowercased tokens of the query of the response, by their prefixes
RespTokens == {to_lowercase(t) : t \in Range(QueryTokens(resp.query))}
IsNegative(t) == Len(t) >= 1 /\ t[1] = "-"
IsRatingToken(t) == Len(t) >= 7 /\ SubSeq(t, 1, 7) = <<"r", "a", "t", "i", "n", "g", ":">>
PlainTokens == {t \in RespTokens : ~IsNegative(t) /\ ~IsRatingToken(t)}
MinusTokens == {t \in RespTokens : IsNegative(t) /\ ~IsRatingToken(Tail(t))}
ExcludedNames == {Tail(t) : t \in MinusTokens}

\* C1: when the query holds only include-tags T, a visible post is returned
\* iff it has every tag of T (by normalized name); with T empty every visible
\* post is returned, also one without tags.
C1_IncludeTagsAll ==
    (IsSearch /\ RespTokens = PlainTokens) =>
        \A p \in posts :
            VisibleTo(p, resp.user) =>
                (p.id \in Returned <=> \A n \in PlainTokens : HasTag(p, n))

\* a search for two include-tags returned a post that has both and left out a
\* visible post that has only one of them
C1_Witness ==
    /\ IsSearch /\ RespTokens = PlainTokens
    /\ Cardinality(PlainTokens) = 2
    /\ Returned # {}
    /\ \E p \in posts :
         /\ VisibleTo(p, resp.user)
         /\ p.id \notin Returned
         /\ \E n \in PlainTokens : HasTag(p, n)

\* C2: a post that has at least one excluded tag is never returned, whatever
\* else it matches; and when the query holds only exclude-tags, a visible post
\* is absent iff it has one of them.
C2_ExcludeTagsAny ==
    IsSearch =>
        /\ \A p \in posts :
             (\E n \in ExcludedNames : HasTag(p, n)) => p.id \notin Returned
        /\ RespTokens = MinusTokens =>
             \A p \in posts :
                 VisibleTo(p, resp.user) =>
                     (p.id \notin Returned <=> \E n \in ExcludedNames : HasTag(p, n))

\* a search with an include-tag and an exclude-tag left out a visible post that
\* has the include-tag and the exclude-tag
C2_Witness ==
    /\ IsSearch
    /\ PlainTokens # {} /\ ExcludedNames # {}
    /\ \E p \in posts :
         /\ VisibleTo(p, resp.user)
         /\ \A n \in PlainTokens : HasTag(p, n)
         /\ \E n \in ExcludedNames : HasTag(p, n)
         /\ p.id \notin Returned

\* C3: the filters compose with AND: a post is returned iff it is visible, has
\* every include-tag, has no exclude-tag, and passes each non-empty rating set.
C3_FiltersComposeWithAnd ==
    IsSearch =>
        LET c == classify_tokens(QueryTokens(resp.query))
        IN \A p \in posts :
             p.id \in Returned <=>
                 /\ VisibleTo(p, resp.user)
                 /\ \A n \in c.include_tags : HasTag(p, n)
                 /\ ~\E n \in c.exclude_tags : HasTag(p, n)
                 /\ (c.include_ratings = {} \/ p.rating \in c.include_ratings)
                 /\ (c.exclude_ratings = {} \/ p.rating \notin c.exclude_ratings)

\* a search with a tag and a rating constraint left out a visible post that
\* has the tag but not the rating, and returned another post
C3_Witness ==
    /\ IsSearch
    /\ LET c == classify_tokens(QueryTokens(resp.query))
       IN /\ c.include_tags # {} /\ c.include_ratings # {}
          /\ Returned # {}
          /\ \E p \in posts :
               /\ VisibleTo(p, resp.user)
               /\ \A n \in c.include_tags : HasTag(p, n)
               /\ p.rating \notin c.include_ratings
               /\ p.id \notin Returned

\* C4: a returned post is public, or owned by the caller, or the caller is an
\* admin; and a search without tokens returns every such post (a private post
\* to its owner and to an admin, a public post to every caller).
C4_SearchVisibility ==
    IsSearch =>
        /\ \A p \in posts :
             p.id \in Returned =>
                 \/ p.is_public
                 \/ resp.user = p.uploader_id
                 \/ resp.user = Admin.id
        /\ RespTokens = {} =>
             \A p \in posts :
                 (p.is_public \/ resp.user \in {p.uploader_id, Admin.id})
                     => p.id \in Returned

\* a search by a user who is neither owner nor admin, over a store with a
\* private and a public post, returned the public one only
C4_Witness ==
    /\ IsSearch /\ RespTokens = {}
    /\ resp.user = Bob.id
    /\ \E p \in posts : ~p.is_public /\ p.uploader_id = Alice.id /\ p.id \notin Returned
    /\ \E p \in posts : p.is_public /\ p.id \in Returned

----------------------------------------------------------------------------
(* Claims on the pool order *)


DistinctPositions(listing) ==
    \A i, j \in DOMAIN listing :
        i # j => listing[i].position # listing[j].position

RemoveAt(s, i) == SubSeq(s, 1, i - 1) \o SubSeq(s, i + 1, Len(s))

MemberIds(listing) == [i \in DOMAIN listing |-> listing[i].pool_post_id]

\* the response is that of a sort_pool request that moved a member
IsMove ==
    /\ resp.op = "sort_pool"
    /\ resp.status = "ok"
    /\ resp.old_index # resp.new_index

C7_NoEqualPositions ==
    \A m1, m2 \in pool_post :
        (m1.pool_id = m2.pool_id /\ m1.position = m2.position) => m1.id = m2.id

\* C8: add_post_to_pool gives the new membership position 1 in a pool without
\* memberships, else floor(max) + 1: the integer n above every position of the
\* pool with n - 1 not above the largest.
C8_AppendPosition ==
    (resp.op = "add_post_to_pool" /\ resp.status = "ok") =>
        LET added == CHOOSE m \in pool_post :
                        m.pool_id = resp.pool_id /\ m.post_id = resp.post_id
            others == {m \in pool_post : m.pool_id = resp.pool_id /\ m.id # added.id}
        IN /\ added.position = resp.position
           /\ added.position % Unit = 0
           /\ others = {} => added.position = Unit
           /\ \A m \in others : m.position < added.position
           /\ others # {} => \E m \in others : added.position - Unit <= m.position

\* a post was added to a pool whose largest position is not an integer
C8_Witness ==
    /\ resp.op = "add_post_to_pool" /\ resp.status = "ok"
    /\ \E m \in pool_post :
         /\ m.pool_id = resp.pool_id /\ m.post_id # resp.post_id
         /\ m.position % Unit # 0
         /\ \A n \in pool_post :
              (n.pool_id = resp.pool_id /\ n.post_id # resp.post_id)
                  => n.position <= m.position
         /\ resp.position = floor(m.position) + Unit
         /\ resp.position < m.position + Unit

\* C9: a sort_pool request of an editor with source # destination and an index
\* outside the listing ends NotFound and changes no membership.
C9_OutOfRangeIsNotFound ==
    [][ (/\ resp'.op = "sort_pool"
         /\ resp'.old_index # resp'.new_index
         /\ \E pool \in pools :
              /\ pool.id = resp'.pool_id
              /\ can_edit(UserById(resp'.user), pool)
         /\ \E listing \in get_posts_in_pool(resp'.pool_id, UserById(resp'.user)) :
              \/ resp'.old_index >= Len(listing)
              \/ resp'.new_index >= Len(listing))
        => (resp'.status = "NotFound" /\ pool_post' = pool_post) ]_vars

----------------------------------------------------------------------------
(* Visibility of everything read *)

PostVisible(id, uid) == \E p \in posts : p.id = id /\ VisibleTo(p, uid)
PoolVisible(id, uid) == \E p \in pools : p.id = id /\ VisibleTo(p, uid)

\* C5: whatever a read operation returns to a caller - the posts of a search
\* page and of the RSS feed, the post of a post view or of its details, its
\* parent and children, the pools it is shown in and the previous and next
\* post there, the pools of the pool list, a viewed pool and its members - is
\* public, or uploaded by the caller, or the caller is an admin.
C5_ReadsReturnOnlyVisible ==
    /\ resp.op \in {"posts_page", "rss_page"} =>
         \A i \in DOMAIN resp.posts : PostVisible(resp.posts[i].id, resp.user)
    /\ (resp.op = "view_post_page" /\ resp.status = "ok") =>
         /\ PostVisible(resp.post_id, resp.user)
         /\ \A id \in resp.parent_post \cup resp.children_posts :
              PostVisible(id, resp.user)
         /\ \A d \in resp.pool_data :
              /\ PoolVisible(d.id, resp.user)
              /\ \A id \in Range(d.previous_post_id) \cup Range(d.next_post_id) :
                   PostVisible(id, resp.user)
    /\ (resp.op = "post_details" /\ resp.status = "ok") =>
         PostVisible(resp.post_id, resp.user)
    /\ resp.op = "get_pools_page" =>
         \A i \in DOMAIN resp.pools : PoolVisible(resp.pools[i].id, resp.user)
    /\ (resp.op = "view_pool" /\ resp.status = "ok") =>
         /\ PoolVisible(resp.pool_id, resp.user)
         /\ \A i \in DOMAIN resp.posts : PostVisible(resp.posts[i].id, resp.user)

\* a post is viewed by someone who may see it but neither its parent nor the
\* pool it is in, and the view shows neither
C5_Witness ==
    /\ resp.op = "view_post_page"
    /\ resp.status = "ok"
    /\ \E p \in posts :
         /\ p.id = resp.post_id
         /\ p.parent_id # 0
         /\ ~PostVisible(p.parent_id, resp.user)
    /\ \E m \in pool_post :
         /\ m.post_id = resp.post_id
         /\ ~PoolVisible(m.pool_id, resp.user)
    /\ resp.parent_post = {}
    /\ resp.pool_data = {}

----------------------------------------------------------------------------
(* Pagination of the posts listing *)

\* the posts that match the include-tags of the request and that its caller
\* may see
Matching ==
    {p \in posts : VisibleTo(p, resp.user) /\ \A n \in PlainTokens : HasTag(p, n)}

\* C10: posts_page never fails; its page count is the least number of pages of
\* 50 that hold the matching visible posts; and page 0, like page 1, shows the
\* 50 matching visible posts of highest id (all of them if fewer), highest
\* first.
C10_PageCountAndPageZero ==
    resp.op = "posts_page" =>
        /\ resp.status = "ok"
        /\ resp.page_count * PostsPageSize >= Cardinality(Matching)
        /\ resp.page_count > 0 =>
             (resp.page_count - 1) * PostsPageSize < Cardinality(Matching)
        /\ resp.page \in {0, 1} =>
             /\ Len(resp.posts) = IF Cardinality(Matching) < PostsPageSize
                                  THEN Cardinality(Matching) ELSE PostsPageSize
             /\ \A i \in DOMAIN resp.posts :
                  /\ \E p \in Matching : p.id = resp.posts[i].id
                  /\ i > 1 => resp.posts[i].id < resp.posts[i - 1].id
             /\ \A p \in Matching :
                  p.id \notin Returned =>
                      \A i \in DOMAIN resp.posts : p.id < resp.posts[i].id

\* page 0 is asked of 51 matching visible posts: two pages, the first shown
C10_Witness ==
    /\ resp.op = "posts_page"
    /\ resp.page = 0
    /\ Cardinality(Matching) = PostsPageSize + 1
    /\ resp.page_count = 2
    /\ Len(resp.posts) = PostsPageSize
    /\ resp.posts[1].id = MaxRows

----------------------------------------------------------------------------
(* Tags: merge, collection, upsert *)

\* the request is an edit_tag by an admin, of one name to one name, and in the
\* state it is served in `foo` has the old name and `bar`, another tag, the
\* new one
IsMergeOf(foo, bar) ==
    /\ resp'.op = "edit_tag"
    /\ UserById(resp'.user).is_admin
    /\ Len(split_whitespace(resp'.tags)) = 1
    /\ Len(split_whitespace(resp'.new_tag)) = 1
    /\ foo.normalized_name = to_lowercase(split_whitespace(resp'.tags)[1])
    /\ bar.normalized_name = to_lowercase(split_whitespace(resp'.new_tag)[1])
    /\ foo.id # bar.id

PostsTagged(table, tag_id) == {tp.post_id : tp \in {x \in table : x.tag_id = tag_id}}

\* C11: when edit_tag renames a tag foo to the name of another existing tag
\* bar, the request succeeds and afterwards no association to foo is left, the
\* row of foo is gone, every post that was tagged foo is tagged bar, bar still
\* is one row, and bar has one association for each post that had foo or bar.
C11_MergeIntoExistingTag ==
    [][ \A foo \in tags, bar \in tags :
          IsMergeOf(foo, bar) =>
            /\ resp'.status = "ok"
            /\ PostsTagged(tag_post', foo.id) = {}
            /\ ~\E t \in tags' : t.id = foo.id \/ t.normalized_name = foo.normalized_name
            /\ PostsTagged(tag_post, foo.id) \subseteq PostsTagged(tag_post', bar.id)
            /\ bar \in tags'
            /\ Cardinality({tp \in tag_post' : tp.tag_id = bar.id})
                 = Cardinality(PostsTagged(tag_post, foo.id) \cup PostsTagged(tag_post, bar.id))
      ]_vars

\* a merge has been served that moved one association to a tag that now has
\* two posts
C11_Witness ==
    /\ resp.op = "edit_tag"
    /\ resp.status = "ok"
    /\ resp.new_tag_db # {}
    /\ resp.old_tag_db \cap resp.new_tag_db = {}
    /\ resp.rows_affected = 1
    /\ \E id \in resp.new_tag_db : Cardinality(PostsTagged(tag_post, id)) = 2
    /\ \A id \in resp.old_tag_db : PostsTagged(tag_post, id) = {}

\* C12: one run of clean_dangling_tags deletes exactly the tags without an
\* association: the tags with one stay and so does every association, and
\* afterwards no tag is without an association.
C12_CollectsExactlyUnused ==
    [][ resp'.op = "clean_dangling_tags" =>
          /\ tags' = {t \in tags : PostsTagged(tag_post, t.id) # {}}
          /\ tag_post' = tag_post
          /\ \A t \in tags' : PostsTagged(tag_post', t.id) # {}
      ]_vars

\* a run has deleted a tag and kept another that is in use
C12_Witness ==
    /\ resp.op = "clean_dangling_tags"
    /\ resp.deleted # {}
    /\ tags # {}
    /\ tag_post # {}

\* the distinct normalized names of the tags text of the request; upload
\* drops the tokens with a prefix
InputNormalizedNames ==
    LET tokens == Range(split_whitespace(resp.tags_text))
        kept == IF resp.op = "upload"
                THEN {t \in tokens : ~IsNegative(t) /\ ~IsRatingToken(t)}
                ELSE tokens
    IN {to_lowercase(t) : t \in kept}

\* C13: the tag upsert of upload and submit_post_details never ends in a
\* conflict error, the table never holds two rows of one normalized name, and
\* the request resolves to one stored tag for each distinct normalized name
\* of its input, and to no other.
C13_UpsertOnePerNormalizedName ==
    /\ \A t1 \in tags, t2 \in tags :
         (t1.normalized_name = t2.normalized_name \/ t1.id = t2.id) => t1 = t2
    /\ (resp.op \in {"upload", "submit_post_details"} /\ "tags_text" \in DOMAIN resp) =>
         /\ resp.status # "Database"
         /\ resp.upload_tags \subseteq tags
         /\ \A n \in InputNormalizedNames :
              Cardinality({t \in resp.upload_tags : t.normalized_name = n}) = 1
         /\ Cardinality(resp.upload_tags) = Cardinality(InputNormalizedNames)

\* names that differ only in case were stored while another tag existed, and
\* resolved to one tag
C13_Witness ==
    /\ resp.op \in {"upload", "submit_post_details"}
    /\ "tags_text" \in DOMAIN resp
    /\ resp.tags_text = Str_A_a
    /\ Cardinality(resp.upload_tags) = 1
    /\ Cardinality(tags) = 2

----------------------------------------------------------------------------
(* Failure in the middle of the tag replacement *)

\* C14: when a statement of the tag replacement of submit_post_details fails,
\* the post has the tag associations it had before the request.
C14_ReplacementAllOrNothing ==
    [][ (resp'.op = "submit_post_details" /\ resp'.status = "Database") =>
          {tp \in tag_post' : tp.post_id = resp'.post_id}
            = {tp \in tag_post : tp.post_id = resp'.post_id}
      ]_vars

----------------------------------------------------------------------------
(* Uploads that overlap *)

Resolved(r) == inflight[r].pc = "media"

RequestNormalizedNames(r) ==
    {to_lowercase(t) : t \in UploadTagNames(inflight[r].tags_text)}

\* C15: however the insert and the select of uploads that overlap are
\* interleaved, the table holds one row for a normalized name, every request
\* that has selected holds one stored row for each of its normalized names,
\* and two requests hold the same row for the same normalized name.
C15_ConcurrentUpsertConverges ==
    /\ \A t1 \in tags, t2 \in tags :
         t1.normalized_name = t2.normalized_name => t1 = t2
    /\ \A r \in Requests :
         Resolved(r) =>
           /\ inflight[r].upload_tags \subseteq tags
           /\ \A n \in RequestNormalizedNames(r) :
                Cardinality({t \in inflight[r].upload_tags : t.normalized_name = n}) = 1
    /\ \A r1 \in Requests, r2 \in Requests :
         (Resolved(r1) /\ Resolved(r2)) =>
           \A t1 \in inflight[r1].upload_tags, t2 \in inflight[r2].upload_tags :
             t1.normalized_name = t2.normalized_name => t1 = t2

\* no upload has ended yet; two requests name the same new tag in different
\* case, both have inserted, and the second has selected the one row while
\* the first has yet to select
C15_Witness ==
    /\ resp = NoResp
    /\ inflight[1].pc = "find"
    /\ inflight[2].pc = "media"
    /\ inflight[1].tags_text # inflight[2].tags_text
    /\ RequestNormalizedNames(1) = RequestNormalizedNames(2)
    /\ Cardinality(tags) = 1
    /\ inflight[2].upload_tags = tags

----------------------------------------------------------------------------
(* The token classifier *)

Lowered == {to_lowercase(t) : t \in Range(resp.tokens)}
HasMinus(t) == Len(t) >= 1 /\ t[1] = "-"
HasRating(t) == Len(t) >= 7 /\ SubSeq(t, 1, 7) = <<"r", "a", "t", "i", "n", "g", ":">>
HasMinusRating(t) == HasMinus(t) /\ HasRating(Tail(t))

\* C16: the classifier lowercases each token and puts it into one set:
\* "-rating:X" gives X in exclude_ratings, another "-X" gives X in
\* exclude_tags, "rating:X" gives X in include_ratings, and any other token
\* is in include_tags as it is; the sets hold nothing else.
C16_ClassifierPartitions ==
    resp.op = "classify_tokens" =>
        /\ resp.classified.exclude_ratings =
             {SubSeq(t, 9, Len(t)) : t \in {x \in Lowered : HasMinusRating(x)}}
        /\ resp.classified.exclude_tags =
             {Tail(t) : t \in {x \in Lowered : HasMinus(x) /\ ~HasMinusRating(x)}}
        /\ resp.classified.include_ratings =
             {SubSeq(t, 8, Len(t)) : t \in {x \in Lowered : ~HasMinus(x) /\ HasRating(x)}}
        /\ resp.classified.include_tags =
             {t \in Lowered : ~HasMinus(t) /\ ~HasRating(t)}

\* a rating value typed as a tag next to a rating token typed in upper case:
\* the first is a tag, the second a rating
C16_Witness ==
    /\ resp.op = "classify_tokens"
    /\ resp.tokens = <<Str_S, Str_Rating_S>>
    /\ resp.classified.include_tags = {Str_s}
    /\ resp.classified.include_ratings = {Str_s}
    /\ resp.classified.exclude_tags = {}
    /\ resp.classified.exclude_ratings = {}

----------------------------------------------------------------------------
(* Memberships *)

\* C17: a pool holds a post in at most one membership, and add_post_to_pool
\* for a post that is a member of the pool fails and changes no membership.
C17_OneMembershipPerPoolAndPost ==
    [][ /\ \A m1 \in pool_post', m2 \in pool_post' :
             (m1.pool_id = m2.pool_id /\ m1.post_id = m2.post_id) => m1 = m2
        /\ (/\ resp'.op = "add_post_to_pool"
            /\ "post_id" \in DOMAIN resp'
            /\ \E m \in pool_post :
                 m.pool_id = resp'.pool_id /\ m.post_id = resp'.post_id)
           => (resp'.status # "ok" /\ pool_post' = pool_post)
      ]_vars

\* a member was added again, and the request failed
C17_Witness ==
    /\ resp.op = "add_post_to_pool"
    /\ resp.status = "Database"
    /\ Cardinality({m \in pool_post :
                       m.pool_id = resp.pool_id /\ m.post_id = resp.post_id}) = 1
    /\ Cardinality(pool_post) >= 2

----------------------------------------------------------------------------
(* Ratings *)

\* C18: the rating of every post is one of u, s, q, e.
C18_RatingIsDefined ==
    \A p \in posts : p.rating \in {Str_u, Str_s, Str_q, Str_e}

----------------------------------------------------------------------------
(* What sort_pool leaves alone *)

\* C19: sort_pool adds and removes no membership and changes neither pool nor
\* post of one; it writes no position when the two indices are equal or the
\* request fails, and otherwise only the position of the membership that the
\* listing of the pool showed at the source index.
C19_SortChangesOneMembership ==
    [][ resp'.op = "sort_pool" =>
          /\ {[id |-> m.id, pool_id |-> m.pool_id, post_id |-> m.post_id] : m \in pool_post'}
               = {[id |-> m.id, pool_id |-> m.pool_id, post_id |-> m.post_id] : m \in pool_post}
          /\ (resp'.old_index = resp'.new_index \/ resp'.status # "ok")
               => pool_post' = pool_post
          /\ \A m \in pool_post \ pool_post' :
               /\ m.pool_id = resp'.pool_id
               /\ m.id = resp'.before[resp'.old_index + 1].pool_post_id
      ]_vars

\* a sort moved a member of one pool while the other pool holds the same
\* post at another position
C19_Witness ==
    /\ resp.op = "sort_pool"
    /\ resp.status = "ok"
    /\ resp.old_index # resp.new_index
    /\ \E m1 \in pool_post, m2 \in pool_post :
         /\ m1.pool_id = resp.pool_id
         /\ m1.id = resp.before[resp.old_index + 1].pool_post_id
         /\ m2.pool_id # m1.pool_id
         /\ m2.post_id = m1.post_id
         /\ m2.position # m1.position


\* the position between the neighbours of the destination in a listing from
\* which the moved member is taken out: 0 below the first member, the last
\* position plus 2.0 above the last one
BetweenNeighbours(listing, old_index, new_index) ==
    LET rest == RemoveAt(listing, old_index + 1)
        lower == IF new_index = 0 THEN 0 ELSE rest[new_index].position
        upper == IF new_index = Len(rest) THEN rest[new_index].position + 2 * Unit
                 ELSE rest[new_index + 1].position
    IN (lower + upper) \div 2

\* C20: two sort_pool requests on one pool are not serialized. Each reads the
\* listing and later writes one position: the UPDATE of a request changes the
\* membership that was at the source index of the listing the request read,
\* to the position between the neighbours of the destination in that listing,
\* whatever other requests have written since; so two overlapping requests,
\* each valid alone, can leave two memberships at the same position.
C20_SortWritesFromItsOwnRead ==
    [][\A r \in Requests :
          (inflight[r].pc = "update" /\ inflight'[r].pc = "respond") =>
              LET read == inflight[r].posts
                  moved == read[inflight[r].old_index + 1]
                  position == BetweenNeighbours(read, inflight[r].old_index,
                                                inflight[r].new_index)
              IN pool_post' =
                    {IF m.id = moved.pool_post_id
                        THEN [m EXCEPT !.position = position] ELSE m :
                        m \in pool_post}]_vars

\* both requests read the listing [1, 2, 3], one moves index 2 to index 0 and
\* the other index 1 to index 0, both have written 0.5: two memberships of
\* the pool are at the same position
C20_Witness ==
    /\ inflight[1].pc = "respond"
    /\ inflight[2].pc = "respond"
    /\ inflight[1].posts = inflight[2].posts
    /\ DistinctPositions(inflight[1].posts)
    /\ inflight[1].posts[inflight[1].old_index + 1].pool_post_id
           # inflight[2].posts[inflight[2].old_index + 1].pool_post_id
    /\ \E m1, m2 \in pool_post :
          /\ m1.id # m2.id
          /\ m1.pool_id = inflight[1].pool_id
          /\ m2.pool_id = inflight[1].pool_id
          /\ m1.position = m2.position


----------------------------------------------------------------------------
(* A collection pass that overlaps with an upload *)

\* the tags that the DELETE of request r takes away
Collected(r) == {t \in tags : t.id \in inflight[r].dangling}

\* an upload that has inserted or selected its tags and has yet to associate them
UpsertedBy(r2) ==
    IF inflight[r2].pc \in {"find", "media"} /\ inflight[r2].op = "upload"
    THEN RequestNormalizedNames(r2) ELSE {}

\* C21: the DELETE of a collection pass takes away no tag that has an
\* association, hence no association, and no tag that an upload in flight has
\* upserted and is about to associate, however the two are interleaved.
C21_CollectionKeepsTagsInUse ==
    [][\A r \in Requests :
          (inflight[r].pc = "delete_many" /\ inflight'[r] = Idle) =>
              /\ tag_post' = tag_post
              /\ \A t \in Collected(r), r2 \in Requests :
                    t.normalized_name \notin UpsertedBy(r2)
      ]_vars


----------------------------------------------------------------------------
(* Completions in the search box *)

\* C22: for the token that ends at the caret, search_tags offers rating
\* completions exactly when the search classifier puts the token into
\* include_ratings or exclude_ratings, and tag completions exactly when the
\* classifier puts it into include_tags or exclude_tags, upper-case letters
\* included.
C22_CompletionClassifiesAsSearch ==
    (resp.op = "search_tags" /\ resp.token # <<>>) =>
        LET c == classify_tokens(<<resp.token>>)
        IN /\ (resp.kind = "ratings") <=>
                  (c.include_ratings \cup c.exclude_ratings # {})
           /\ (resp.kind = "tags") <=>
                  (c.include_tags \cup c.exclude_tags # {})


----------------------------------------------------------------------------
(* The rows of a search *)

\* the names of the tags associated with the post of that id
TagNamesOf(post_id) ==
    {t.name : t \in {r \in tags :
                        [post_id |-> post_id, tag_id |-> r.id] \in tag_post}}

\* C23: a search returns a post at most once, whatever its number of tags,
\* in strictly descending order of post id, and the tags of a returned post
\* are all the tags associated with it, not only those named in the query.
C23_OncePerPostNewestFirstAllTags ==
    IsSearch =>
        /\ \A i, j \in DOMAIN resp.posts :
              i < j => resp.posts[i].id > resp.posts[j].id
        /\ \A i \in DOMAIN resp.posts :
              resp.posts[i].tags = TagNamesOf(resp.posts[i].id)

\* a search for the tag "a" returned two posts, the newer of them tagged
\* "a" and "b"
C23_Witness ==
    /\ IsSearch
    /\ resp.query = <<Str_a>>
    /\ Len(resp.posts) = 2
    /\ Cardinality(resp.posts[1].tags) = 2
    /\ Cardinality(TagNamesOf(resp.posts[1].id)) = 2


----------------------------------------------------------------------------
(* Tokens that are a prefix and nothing else *)

\* the tokens of the query of the response without "-", "rating:", "-rating:"
WithoutPrefixOnly(tokens) ==
    SelectSeq(tokens, LAMBDA t : to_lowercase(t) \notin PrefixOnlyTokens)

\* C24: none of the four sets of the classifier holds the empty string, and a
\* search returns what it returns for the query without the tokens "-",
\* "rating:" and "-rating:".
C24_EmptyTokensDropped ==
    resp.op = "posts_page" =>
        LET tokens == QueryTokens(resp.query)
            c == classify_tokens(tokens)
        IN /\ <<>> \notin c.include_tags \cup c.exclude_tags
                            \cup c.include_ratings \cup c.exclude_ratings
           /\ resp.posts =
                 fetch_page(search_posts(WithoutPrefixOnly(tokens), UserById(resp.user)),
                            PostsPageSize, saturating_sub(resp.page, 1))


----------------------------------------------------------------------------
(* The member listing *)

\* C25: the listing that sort_pool answers with holds every membership of
\* the pool whose post the caller may see, a post without tags included, in
\* ascending order of position.
C25_ListingHoldsEveryVisibleMember ==
    (resp.op = "sort_pool" /\ resp.status = "ok") =>
        /\ {resp.posts[i].pool_post_id : i \in DOMAIN resp.posts}
              = {m.id : m \in {n \in pool_post :
                                  /\ n.pool_id = resp.pool_id
                                  /\ PostVisible(n.post_id, resp.user)}}
        /\ \A i, j \in DOMAIN resp.posts :
              i < j => resp.posts[i].position <= resp.posts[j].position


----------------------------------------------------------------------------
(* edit_tag onto the tag itself *)

\* the step is an edit_tag that succeeded and whose new name has the
\* normalized form of the old one
IsCaseOnlyEdit ==
    /\ resp'.op = "edit_tag"
    /\ resp'.status = "ok"
    /\ to_lowercase(split_whitespace(resp'.tags)[1])
          = to_lowercase(split_whitespace(resp'.new_tag)[1])

\* C26: an edit_tag whose new name differs from the old one in letter case
\* only keeps the tag row and its associations: every post tagged with it
\* before is tagged with it after.
C26_CaseOnlyEditKeepsTag ==
    [][IsCaseOnlyEdit =>
          \A t \in tags :
              t.normalized_name = to_lowercase(split_whitespace(resp'.tags)[1]) =>
                  /\ \E t2 \in tags' : t2.id = t.id
                  /\ PostsTagged(tag_post', t.id) = PostsTagged(tag_post, t.id)
      ]_vars


----------------------------------------------------------------------------
(* add_post_to_pool requests that overlap *)

\* C27: however the reads of the maximum position and the inserts of
\* add_post_to_pool requests on one pool are interleaved, the memberships
\* they insert for different posts have different positions.
C27_ConcurrentAddsDistinctPositions ==
    \A m1, m2 \in pool_post :
        (/\ m1.id > 1
         /\ m2.id > 1
         /\ m1.pool_id = m2.pool_id
         /\ m1.post_id # m2.post_id) => m1.position # m2.position


----------------------------------------------------------------------------
(* Tag replacements that overlap *)

\* the normalized names of the tags of the post of that id
NormalizedTagsOf(post_id) ==
    {t.normalized_name : t \in {x \in tags :
        [post_id |-> post_id, tag_id |-> x.id] \in tag_post}}

\* the normalized names a submit_post_details request asks for
SubmittedTags(r) ==
    {to_lowercase(t) : t \in Range(split_whitespace(inflight[r].tags_text))}

\* C28: when two submit_post_details requests for one post have both been
\* answered, however their statements were interleaved, the post has the
\* tag set of one of them: not the union, not a mixture, not the empty set
\* when neither asked for it.
C28_ReplacementsEndWithOneOfTheSets ==
    \A r1, r2 \in Requests :
        (/\ r1 # r2
         /\ inflight[r1].pc = "answered"
         /\ inflight[r2].pc = "answered"
         /\ inflight[r1].post_id = inflight[r2].post_id) =>
            NormalizedTagsOf(inflight[r1].post_id)
                \in {SubmittedTags(r1), SubmittedTags(r2)}


----------------------------------------------------------------------------
(* What a caller without a session observes *)

\* the public posts, their associations and the tags of those
PublicPart ==
    LET public == {p \in posts : p.is_public}
        assoc == {tp \in tag_post : \E p \in public : p.id = tp.post_id}
    IN [posts |-> public, tag_post |-> assoc,
        tags |-> {t \in tags : \E tp \in assoc : tp.tag_id = t.id}]

\* what the query selects from the public part alone: the public posts that
\* have every included tag and no excluded one, whose rating is among the
\* included ratings if there are any and not among the excluded ones, newest
\* first, each with the names of its tags
PublicView(q) ==
    LET c == classify_tokens(QueryTokens(q))
        pub == PublicPart
        TagsOn(p) == {t \in pub.tags :
                         [post_id |-> p.id, tag_id |-> t.id] \in pub.tag_post}
        NamesOn(p) == {t.normalized_name : t \in TagsOn(p)}
        matching ==
            {p \in pub.posts :
                /\ c.include_tags \subseteq NamesOn(p)
                /\ c.exclude_tags \cap NamesOn(p) = {}
                /\ c.include_ratings # {} => p.rating \in c.include_ratings
                /\ p.rating \notin c.exclude_ratings}
        ids == SortedDesc({p.id : p \in matching})
    IN [i \in 1..Len(ids) |->
           LET p == CHOOSE x \in matching : x.id = ids[i]
           IN [id |-> p.id, rating |-> p.rating,
               tags |-> {t.name : t \in TagsOn(p)}]]

\* C29: what a caller without a session gets from search (the page of posts,
\* their tags, the page count) and from the feed is determined by the query
\* and the public part of the store: two stores that differ only in private
\* posts and in the associations of private posts give the same output.
C29_PrivateContentNotObservable ==
    (resp.op \in {"posts_page", "rss_page"} /\ resp.user = NoUser.id
        /\ Cardinality(posts) <= RssPageSize) =>
        /\ resp.posts = PublicView(resp.query)
        /\ resp.op = "posts_page" =>
              resp.page_count = IF PublicView(resp.query) = <<>> THEN 0 ELSE 1

\* a public post tagged "a" is what the search for "a" shows to a caller
\* without a session, next to a private post that carries the tags "a", "b"
C29_Witness ==
    /\ resp.op = "posts_page"
    /\ resp.user = NoUser.id
    /\ resp.query = <<Str_a>>
    /\ Len(resp.posts) = 1
    /\ \E p \in posts :
          /\ ~p.is_public
          /\ p.id # resp.posts[1].id
          /\ NormalizedTagsOf(p.id) = {Str_a, Str_b}


----------------------------------------------------------------------------
(* Tags that can be searched for *)

\* C30: no stored tag has a normalized name that starts with "-" or with
\* "rating:", and a search of the uploader for the name of a tag of one of
\* their posts, as the only token, returns that post.
C30_EveryTagFindsItsPosts ==
    /\ \A t \in tags :
          /\ ~starts_with(t.normalized_name, NEGATIVE_PREFIX)
          /\ ~starts_with(t.normalized_name, RATING_PREFIX)
    /\ \A tp \in tag_post :
          \A t \in {x \in tags : x.id = tp.tag_id} :
             LET found == search_posts(<<t.name>>, Alice)
             IN \E i \in DOMAIN found : found[i].id = tp.post_id

====
